---- MODULE Spec2Model ----
(***************************************************************************)
(* State synchronisation engine of the data labeler frontend:              *)
(*   StateSync            services/frontend/src/lib/statePersistence.ts    *)
(*   LocalStorageAdapter  unnamed/part_006                                 *)
(*   BackendAdapter       unnamed/part_008                                 *)
(*   createStateSync      unnamed/part_007                                 *)
(*                                                                         *)
(* JavaScript runs the orchestrator on one thread.  Code between two       *)
(* suspensions on real I/O (a network round trip, a setTimeout) is one     *)
(* atomic step; the localStorage adapter never waits for I/O, so each of   *)
(* its operations is atomic.  A request to the remote service is split     *)
(* into the step that issues it and the step in which the service handles  *)
(* it and the response resumes the waiting code.                           *)
(*                                                                         *)
(* Optional values (T | null) are sequences of length 0 or 1.              *)
(* Map<string, T> is a function whose DOMAIN is the set of keys; the       *)
(* pendingSyncs Map, whose iteration order the timer uses, is a sequence   *)
(* in insertion order.                                                     *)
(***************************************************************************)
EXTENDS Integers, Sequences, FiniteSets, TLC

\* ---------------------------------------------------------------- bounds
MaxClock == 2
MaxBg == 1
MaxTimers == 3

\* ------------------------------------------------------- program constants
DefaultRetryAttempts == 3
LocalPriority == 1
BackendPriority == 10

Sessions == {"s1"}
Tabs == {"labeling"}

Strategies == {"local-first", "backend-first", "hybrid", "local-only", "backend-only"}
Resolutions == {"local-wins", "backend-wins", "latest-wins", "merge"}

\* values a caller can pass that are outside SyncStrategy and
\* ConflictResolution (the types are erased at run time)
UnknownStrategy == "remote-only"
UnknownResolution == "newest-wins"

\* adapters in registration order (createStateSync: [localAdapter, backendAdapter])
Adapters == <<"localStorage", "backend">>

Priority(a) == IF a = "backend" THEN BackendPriority ELSE LocalPriority

VARIABLES
  strategy,        \* config.strategy
  conflictResolution, \* config.conflictResolution
  retryAttempts,   \* config.retryAttempts
  failPoints,      \* the localStorage.setItem calls of saveState that can throw in this run
  payloads,        \* the DataState values the caller saves in this run
  autoSync,        \* config.autoSync
  syncTimer,       \* StateSync.syncTimer: the handle setInterval returned, if any
  intervals,       \* the interval timers the browser holds (set and not cleared)
  timerCount,      \* the handles the browser has given out so far
  globalStateSync, \* whether the module holds a global StateSync instance
  clock,           \* Date.now()
  localStore,      \* localStorage: session key -> PersistedState
  sessionList,     \* localStorage SESSION_LIST_KEY
  localActive,     \* localStorage ACTIVE_SESSION_KEY
  remoteStore,     \* records held by the remote service
  isOnline,        \* BackendAdapter.isOnline
  remoteActive,    \* the active session pointer held by the remote service
  pendingSyncs,    \* StateSync.pendingSyncs
  bgPushes,        \* backend.saveState calls fired by queueBackendSync, not yet answered
  tick,            \* the running syncPendingChanges, if any
  call             \* the caller's orchestrator operation in progress, if any

vars == <<strategy, conflictResolution, retryAttempts, failPoints, payloads, autoSync,
          syncTimer, intervals, timerCount, globalStateSync, clock, localStore, sessionList,
          localActive, remoteStore, isOnline, remoteActive, pendingSyncs, bgPushes, tick, call>>

config == <<strategy, conflictResolution, retryAttempts, failPoints, payloads, autoSync>>
timerVars == <<syncTimer, intervals, timerCount, globalStateSync>>
localVars == <<localStore, sessionList, localActive>>
remoteVars == <<remoteStore, isOnline, remoteActive>>

\* ------------------------------------------------------------- Map helpers
Put(f, k, v) == [x \in (DOMAIN f) \cup {k} |-> IF x = k THEN v ELSE f[x]]
Remove(f, k) == [x \in (DOMAIN f) \ {k} |-> f[x]]
EmptyMap == [x \in {} |-> 0]

Contains(seq, x) == \E i \in 1..Len(seq) : seq[i] = x
FilterOut(seq, x) == SelectSeq(seq, LAMBDA y : y # x)

\* ------------------------------------------------------------ data shapes
\* A JavaScript value inside a DataState, by kind.  A Date's val names its
\* instant; the ISO string made from it carries the same name.
StringV == [kind |-> "string", val |-> "text"]
NaNV == [kind |-> "number", val |-> "NaN"]
NullV == [kind |-> "null", val |-> ""]
UndefinedV == [kind |-> "undefined", val |-> ""]
DateV == [kind |-> "Date", val |-> "t0"]
InvalidDateV == [kind |-> "Date", val |-> "Invalid Date"]
EpochV == [kind |-> "Date", val |-> "1970-01-01T00:00:00.000Z"]
AbsentV == [kind |-> "absent", val |-> ""]

\* DataState, reduced to one field of each kind of treatment:
\*   fileName        a string (tells the payloads apart)
\*   cell            data[0][column]: string | number | null | undefined
\*   labelCreatedAt  labels[0].createdAt: Date
\*   rulePreview     any | null
DataState(fileName, cell, rulePreview) ==
  [fileName |-> fileName, cell |-> cell, labelCreatedAt |-> DateV,
   rulePreview |-> rulePreview]

\* the dataState local of an operation that has none
NoDataState == DataState("", NullV, NullV)

\* payloads made of strings, finite numbers, null and the typed Dates
Payloads == {DataState("p1", StringV, NullV), DataState("p2", StringV, NullV)}

\* payloads with each kind of value the DataState type admits: a cell that
\* is a string, NaN or undefined, a rulePreview that is null or holds a Date
TypedPayloads ==
  {DataState("p1", c, NullV) : c \in {StringV, NaNV, UndefinedV}}
    \cup {DataState("p1", StringV, DateV)}

\* JSON.parse(JSON.stringify(v)) for a property value v: a Date becomes its
\* ISO string (toJSON), NaN becomes null, a property holding undefined is
\* left out.
JsonValue(v) ==
  CASE v.kind = "Date" /\ v # InvalidDateV -> [kind |-> "string", val |-> v.val]
    [] v = InvalidDateV \/ v = NaNV -> NullV
    [] v.kind = "undefined" -> AbsentV
    [] OTHER -> v

\* new Date(v) for a value v read from parsed JSON
NewDate(v) ==
  CASE v.kind = "string" /\ v # StringV -> [kind |-> "Date", val |-> v.val]
    [] v.kind = "null" -> EpochV
    [] OTHER -> InvalidDateV

\* What an adapter's loadState rebuilds from the JSON text of a DataState:
\* JSON.parse, then new Date() on labels[].createdAt, rules[].createdAt,
\* rules[].updatedAt and actionHistory[].timestamp only.
JsonRoundTrip(dataState) ==
  [fileName |-> dataState.fileName,
   cell |-> JsonValue(dataState.cell),
   labelCreatedAt |-> NewDate(JsonValue(dataState.labelCreatedAt)),
   rulePreview |-> JsonValue(dataState.rulePreview)]

\* SessionMetadata as built by both adapters' saveState: lastModified and
\* lastSyncedAt are the same `now`; the counts are derived from dataState.
Metadata(sessionId, now, storageType) ==
  [sessionId |-> sessionId, lastModified |-> now, storageType |-> storageType,
   syncStatus |-> "synced", lastSyncedAt |-> now]

\* SyncResult.  error is "" when absent; storageType stands for result.metadata
\* ("" when the result carries no metadata).
OkResult(sessionId, storageType) ==
  [success |-> TRUE, sessionId |-> sessionId, error |-> "", storageType |-> storageType]
FailResult(sessionId, error) ==
  [success |-> FALSE, sessionId |-> sessionId, error |-> error, storageType |-> ""]

LocalError == "QuotaExceededError"
RemoteError == "Network error"
\* ApiClient.request's error for an aborted fetch (status 408)
TimeoutError == "Request timeout"
\* a read that the remote adapter answered with [] or null after an error
\* response (logged by the model; the adapter itself returns no SyncResult)
ReadError == "read failed"

\* --------------------------------------------------- LocalStorageAdapter
\* loadState: null when the key is absent.  A stored record stands for its
\* JSON text (saveState's JSON.stringify); loadState parses it and rebuilds
\* the Dates.  The record's own Date fields survive (ISO string, millisecond
\* precision).
LocalLoad(store, sessionId) ==
  IF sessionId \in DOMAIN store
    THEN <<[store[sessionId] EXCEPT !.dataState = JsonRoundTrip(@)]>>
    ELSE <<>>

\* variant: the id is pushed whether or not the list holds it
UpdateSessionListAppend(list, sessionId) == Append(list, sessionId)

\* updateSessionList: push the id unless already included.
UpdateSessionList(list, sessionId) ==
  IF Contains(list, sessionId) THEN list ELSE Append(list, sessionId)

\* saveState.  failAt names the localStorage.setItem call that throws:
\*   0 none, 1 the session record, 2 the session list, 3 the active pointer.
\* The catch block turns the throw into a failed SyncResult.
LocalSaveState(store, list, active, sessionId, dataState, activeTab, now, failAt) ==
  LET existing == LocalLoad(store, sessionId)
      rec == [sessionId |-> sessionId, dataState |-> dataState, activeTab |-> activeTab,
              metadata |-> Metadata(sessionId, now, "local"),
              createdAt |-> IF existing # <<>> THEN existing[1].createdAt ELSE now,
              updatedAt |-> now]
      fail == FailResult(sessionId, LocalError)
  IN  IF failAt = 1
        THEN [store |-> store, list |-> list, active |-> active, result |-> fail]
      ELSE IF failAt = 2 /\ ~Contains(list, sessionId)
        THEN [store |-> Put(store, sessionId, rec), list |-> list, active |-> active,
              result |-> fail]
      ELSE IF failAt = 3
        THEN [store |-> Put(store, sessionId, rec),
              list |-> UpdateSessionList(list, sessionId), active |-> active,
              result |-> fail]
      ELSE [store |-> Put(store, sessionId, rec),
            list |-> UpdateSessionList(list, sessionId), active |-> <<sessionId>>,
            result |-> OkResult(sessionId, "local")]

\* deleteSession.  removeItem does not throw; failAt = 2: the setItem that
\* rewrites the session list throws.
LocalDeleteSession(store, list, active, sessionId, failAt) ==
  IF failAt = 2
    THEN [store |-> Remove(store, sessionId), list |-> list, active |-> active,
          result |-> FailResult(sessionId, LocalError)]
    ELSE [store |-> Remove(store, sessionId), list |-> FilterOut(list, sessionId),
          active |-> IF active = <<sessionId>> THEN <<>> ELSE active,
          result |-> OkResult(sessionId, "")]

\* Array.prototype.sort((a, b) => b.lastModified - a.lastModified): newest
\* first, entries of equal lastModified keep their order (the sort is stable)
RECURSIVE InsertByLastModified(_, _)
InsertByLastModified(sorted, x) ==
  IF sorted = <<>> THEN <<x>>
  ELSE IF x.lastModified > sorted[1].lastModified THEN <<x>> \o sorted
  ELSE <<sorted[1]>> \o InsertByLastModified(Tail(sorted), x)

RECURSIVE SortByLastModified(_)
SortByLastModified(seq) ==
  IF seq = <<>> THEN <<>>
  ELSE InsertByLastModified(SortByLastModified(SubSeq(seq, 1, Len(seq) - 1)), seq[Len(seq)])

\* listSessions: the metadata of every id of the session list whose record
\* loads, sorted
LocalListSessions(store, list) ==
  LET found == SelectSeq(list, LAMBDA id : LocalLoad(store, id) # <<>>)
  IN  SortByLastModified([i \in 1..Len(found) |-> LocalLoad(store, found[i])[1].metadata])

\* clearAll: removes the record of every id of the session list, then the
\* list and the active pointer (removeItem does not throw)
LocalClearAll(store, list, active) ==
  [store |-> [id \in {x \in DOMAIN store : ~Contains(list, x)} |-> store[id]],
   list |-> <<>>, active |-> <<>>, result |-> OkResult("all", "")]

\* --------------------------------------------------------- BackendAdapter
\* The body BackendAdapter.saveState posts (sessionId, dataState, activeTab,
\* metadata); `now` is taken when the request is built.
PostBody(sessionId, dataState, activeTab, now) ==
  [sessionId |-> sessionId, dataState |-> dataState, activeTab |-> activeTab,
   metadata |-> Metadata(sessionId, now, "backend")]

\* The remote service storing a posted body: idempotent upsert of the whole
\* record, updatedAt set to the time of the write.  (The record's createdAt
\* is read by nothing in the client and is left out.)
ServerPut(store, body, now) ==
  Put(store, body.sessionId,
      [sessionId |-> body.sessionId, dataState |-> body.dataState,
       activeTab |-> body.activeTab, metadata |-> body.metadata,
       updatedAt |-> now])

\* The remote service handling DELETE /sessions/{id}: the record is dropped,
\* and an id it does not hold is answered like any other.
ServerDelete(store, sessionId) == Remove(store, sessionId)

\* The remote service handling POST /sessions/active: its pointer names the
\* id posted.  The pointer is a resource of its own: the requests on
\* /sessions/{id} and /sessions leave it alone.
ServerSetActive(sessionId) == <<sessionId>>

\* The remote service handling DELETE /sessions: every record is dropped.
ServerClear(store) == EmptyMap

\* BackendAdapter.saveState's SyncResult for the response received.
RemoteSaveResult(sessionId, ok) ==
  IF ok THEN OkResult(sessionId, "backend") ELSE FailResult(sessionId, RemoteError)

\* BackendAdapter.loadState: null on an error response or no data.  The
\* record travelled as JSON (ApiClient: JSON.stringify(body), response.json())
\* and loadState rebuilds the Dates.
RemoteLoad(store, sessionId, ok) ==
  IF ok /\ sessionId \in DOMAIN store
    THEN <<[store[sessionId] EXCEPT !.dataState = JsonRoundTrip(@)]>>
    ELSE <<>>

\* The remote service answering GET /sessions: the metadata of the records
\* it holds, in an order of its own choosing (order enumerates the ids).
ServerList(store, order) ==
  [i \in 1..Len(order) |-> store[order[i]].metadata]

\* the orders in which the service can enumerate its records
Orders(store) ==
  {o \in [1..Cardinality(DOMAIN store) -> DOMAIN store] :
     \A i, j \in DOMAIN o : o[i] = o[j] => i = j}

\* BackendAdapter.listSessions: [] on an error response, otherwise
\* response.data.map(...) with the Dates rebuilt, in the order received
RemoteListSessions(store, order, ok) ==
  IF ok THEN ServerList(store, order) ELSE <<>>

\* BackendAdapter.clearAll's SyncResult.
RemoteClearResult(ok) ==
  IF ok THEN OkResult("all", "") ELSE FailResult("all", RemoteError)

\* BackendAdapter.deleteSession's SyncResult.
RemoteDeleteResult(sessionId, ok) ==
  IF ok THEN OkResult(sessionId, "") ELSE FailResult(sessionId, RemoteError)

\* -------------------------------------------------- StateSync, pure parts
\* Array.prototype.sort by priority (stable): desc is (a, b) => b.priority -
\* a.priority, otherwise (a, b) => a.priority - b.priority.
Before(a, b, desc) ==
  IF desc THEN Priority(a) > Priority(b) ELSE Priority(a) < Priority(b)

RECURSIVE InsertSorted(_, _, _)
InsertSorted(seq, x, desc) ==
  IF seq = <<>> THEN <<x>>
  ELSE IF Before(x, seq[1], desc) THEN <<x>> \o seq
  ELSE <<seq[1]>> \o InsertSorted(Tail(seq), x, desc)

RECURSIVE SortByPriority(_, _)
SortByPriority(seq, desc) ==
  IF seq = <<>> THEN <<>>
  ELSE InsertSorted(SortByPriority(SubSeq(seq, 1, Len(seq) - 1), desc), seq[Len(seq)], desc)

\* getAdaptersByStrategy
GetAdaptersByStrategy(strat) ==
  CASE strat = "backend-first" -> SortByPriority(Adapters, TRUE)
    [] strat = "local-first"   -> SortByPriority(Adapters, FALSE)
    [] strat = "backend-only"  -> SelectSeq(Adapters, LAMBDA a : a = "backend")
    [] strat = "local-only"    -> SelectSeq(Adapters, LAMBDA a : a = "localStorage")
    [] OTHER                   -> SortByPriority(Adapters, TRUE)

\* results.find(r => r.success) || results[0]
FirstSuccess(results) ==
  LET idx == {i \in 1..Len(results) : results[i].success}
  IN  IF idx = {} THEN <<>>
      ELSE <<results[CHOOSE i \in idx : \A j \in idx : i <= j]>>

\* variant: the failure reported is that of the last adapter attempted
PrimaryResultLast(results) ==
  IF FirstSuccess(results) # <<>> THEN FirstSuccess(results)[1] ELSE results[Len(results)]

PrimaryResult(results) ==
  IF FirstSuccess(results) # <<>> THEN FirstSuccess(results)[1] ELSE results[1]

\* variant: the adapter's name is not looked up, the first state is taken
FindAdapterStateFirst(states, name) == states[1].state

\* states.find(s => s.adapter === name)?.state || states[0].state
FindAdapterState(states, name) ==
  LET idx == {i \in 1..Len(states) : states[i].adapter = name}
  IN  IF idx = {} THEN states[1].state
      ELSE states[CHOOSE i \in idx : \A j \in idx : i <= j].state

\* states.reduce((prev, curr) => curr.state.updatedAt > prev.state.updatedAt ? curr : prev)
RECURSIVE ReduceLatest(_, _)
ReduceLatest(prev, rest) ==
  IF rest = <<>> THEN prev
  ELSE ReduceLatest(IF rest[1].state.updatedAt > prev.state.updatedAt THEN rest[1] ELSE prev,
                    Tail(rest))

\* variant: latest-wins falls through to the first state, as merge does
ResolveConflictFirst(states, policy) ==
  CASE policy = "backend-wins" -> FindAdapterState(states, "backend")
    [] policy = "local-wins"   -> FindAdapterState(states, "localStorage")
    [] OTHER                   -> states[1].state

\* variant: merge picks the state with the greatest updatedAt
ResolveConflictMergeLatest(states, policy) ==
  CASE policy = "backend-wins" -> FindAdapterState(states, "backend")
    [] policy = "local-wins"   -> FindAdapterState(states, "localStorage")
    [] OTHER                   -> ReduceLatest(states[1], Tail(states)).state

\* resolveConflict
ResolveConflict(states, policy) ==
  CASE policy = "backend-wins" -> FindAdapterState(states, "backend")
    [] policy = "local-wins"   -> FindAdapterState(states, "localStorage")
    [] policy = "merge"        -> states[1].state
    [] OTHER                   -> ReduceLatest(states[1], Tail(states)).state

\* variant: the policy is applied to a single state too, and a policy that
\* names an adapter yields null when that adapter has no record
LoadResultByPolicy(states, policy) ==
  LET has(name) == \E i \in 1..Len(states) : states[i].adapter = name
  IN  IF Len(states) = 0 THEN <<>>
      ELSE IF policy = "backend-wins" /\ ~has("backend") THEN <<>>
      ELSE IF policy = "local-wins" /\ ~has("localStorage") THEN <<>>
      ELSE <<ResolveConflict(states, policy)>>

\* the tail of loadState: what it returns for the states collected
LoadResult(states, policy) ==
  IF Len(states) = 0 THEN <<>>
  ELSE IF Len(states) = 1 THEN <<states[1].state>>
  ELSE <<ResolveConflict(states, policy)>>

\* getSyncStatus: the adapters array entry for one adapter's loadState answer
StatusEntry(name, state) ==
  IF state # <<>>
    THEN [name |-> name, synced |-> TRUE, lastSync |-> <<state[1].metadata.lastSyncedAt>>]
    ELSE [name |-> name, synced |-> FALSE, lastSync |-> <<>>]

\* getSyncStatus: latestTimestamp over the states found (<<>> when none)
RECURSIVE LatestTimestamp(_, _)
LatestTimestamp(latest, states) ==
  IF states = <<>> THEN latest
  ELSE LatestTimestamp(
         IF latest = <<>> \/ states[1].state.updatedAt > latest[1]
           THEN <<states[1].state.updatedAt>> ELSE latest,
         Tail(states))

\* getSyncStatus: needsSync
NeedsSync(entries, latest) ==
  \E i \in 1..Len(entries) :
     \/ ~entries[i].synced
     \/ entries[i].lastSync = <<>>
     \/ latest = <<>>
     \/ entries[i].lastSync[1] < latest[1]

\* variant: an entry is set only when its id is new
RECURSIVE MergeSessionsKeepFirst(_, _)
MergeSessionsKeepFirst(all, sessions) ==
  IF sessions = <<>> THEN all
  ELSE LET x == sessions[1]
           idx == {i \in 1..Len(all) : all[i].sessionId = x.sessionId}
       IN  MergeSessionsKeepFirst(IF idx = {} THEN Append(all, x) ELSE all, Tail(sessions))

\* listSessions' merge of one adapter's list into allSessions (a Map, in
\* insertion order): an entry is set when its id is new or its lastModified
\* is greater than the one held
RECURSIVE MergeSessions(_, _)
MergeSessions(all, sessions) ==
  IF sessions = <<>> THEN all
  ELSE LET x == sessions[1]
           idx == {i \in 1..Len(all) : all[i].sessionId = x.sessionId}
           i0 == CHOOSE i \in idx : TRUE
           next == IF idx = {} THEN Append(all, x)
                   ELSE IF x.lastModified > all[i0].lastModified
                     THEN [all EXCEPT ![i0] = x]
                   ELSE all
       IN  MergeSessions(next, Tail(sessions))

\* listSessions' value for the lists the adapters returned, in adapter order
ListResult(lists) ==
  SortByLastModified(MergeSessions(MergeSessions(<<>>, lists[1].sessions),
                                   lists[2].sessions))

\* clearAll's value: success if every adapter succeeded
ClearAllResult(results) ==
  [success |-> \A i \in 1..Len(results) : results[i].success,
   sessionId |-> "all", error |-> "", storageType |-> ""]

\* syncSession's choice among the states found:
\* states.reduce((prev, curr) => curr.state.updatedAt > prev.state.updatedAt ? curr : prev)
SyncLatest(states) == ReduceLatest(states[1], Tail(states))

\* pendingSyncs.set(sessionId, entry): a Map keeps the position of a key it
\* already holds and appends a new key.  The entry's metadata, createdAt and
\* updatedAt are never read and are left out.
PendingIndex(pending, sessionId) ==
  {i \in 1..Len(pending) : pending[i].sessionId = sessionId}

HasPending(pending, sessionId) == PendingIndex(pending, sessionId) # {}

PendingEntry(sessionId, dataState, activeTab) ==
  [sessionId |-> sessionId, dataState |-> dataState, activeTab |-> activeTab]

\* variant: the entry is appended whether or not the key is held
PendingSetAppend(pending, entry) == Append(pending, entry)

PendingSet(pending, entry) ==
  IF HasPending(pending, entry.sessionId)
    THEN [i \in 1..Len(pending) |->
            IF pending[i].sessionId = entry.sessionId THEN entry ELSE pending[i]]
    ELSE Append(pending, entry)

\* pendingSyncs.delete(sessionId)
PendingDelete(pending, sessionId) ==
  SelectSeq(pending, LAMBDA e : e.sessionId # sessionId)

\* variant: the entry stays whatever the answer
AfterPushKept(pending, sessionId, success) == pending

\* variant: the entry is dropped once the push was answered, whatever the answer
AfterPushAnswered(pending, sessionId, success) ==
  PendingDelete(pending, sessionId)

\* the continuation of a push (queueBackendSync's .then, syncPendingChanges'
\* loop body): if (result.success) this.pendingSyncs.delete(sessionId)
AfterPush(pending, sessionId, success) ==
  IF success THEN PendingDelete(pending, sessionId) ELSE pending

\* ------------------------------------------------------------ state machine
\* outcome of one request to the remote service: answered, no connection
\* (ApiResponse.status 0), or an error status (HTTP 5xx, 408 after the abort)
\* The adapter's writes treat every error alike (response.error); its reads
\* tell status 0 from the rest.
Outcomes == {"ok", "network", "http"}
WriteOutcomes == {"ok", "network"}

\* localStorage.setItem calls that may throw in LocalStorageAdapter.saveState,
\* .deleteSession and .setActiveSessionId (0: none does)
SaveFailPoints == 0..3
DeleteFailPoints == {0, 2}
PointerFailPoints == {0, 3}

\* migrateLocalSessionsToBackend's locals: its MigrationResult and the
\* sessions of its loop not yet handled.  on: the migration is running and
\* awaits the orchestrator operation in progress.
NoMigration ==
  [on |-> FALSE, totalSessions |-> 0, migratedToBackend |-> 0, alreadySynced |-> 0,
   failed |-> <<>>, queue |-> <<>>]

IdleCall ==
  [op |-> "idle", pc |-> "idle", sessionId |-> "", dataState |-> NoDataState,
   activeTab |-> "",
   idx |-> 0, attempts |-> 0, sentAt |-> 0, results |-> <<>>, states |-> <<>>,
   stored |-> {}, result |-> <<>>, queue |-> <<>>, before |-> <<>>, after |-> "",
   mig |-> NoMigration, timer |-> FALSE, response |-> ""]

IdleTick == [pc |-> "idle", queue |-> <<>>, sentAt |-> 0]

\* the adapter list an operation walks: saveState and loadState use
\* getAdaptersByStrategy, the others Array.from(this.adapters.values())
Order(op) ==
  IF op \in {"save", "load"} THEN GetAdaptersByStrategy(strategy) ELSE Adapters

\* ---- the auto-sync timer
\* The orchestrator's handle and the browser's timers, as one value.
NoTimers == [syncTimer |-> <<>>, intervals |-> {}, timerCount |-> 0]

Timers == [syncTimer |-> syncTimer, intervals |-> intervals, timerCount |-> timerCount]

\* stopAutoSync: clearInterval of the handle held, if any
StopTimer(t) ==
  [t EXCEPT !.syncTimer = <<>>,
            !.intervals = IF t.syncTimer = <<>> THEN @ ELSE @ \ {t.syncTimer[1]}]

\* variant: setInterval without the stopAutoSync before it
StartTimerNoStop(t) ==
  [syncTimer |-> <<t.timerCount + 1>>, intervals |-> t.intervals \cup {t.timerCount + 1},
   timerCount |-> t.timerCount + 1]

\* startAutoSync: stopAutoSync, then setInterval, which returns a handle not
\* given out before (config.syncInterval is never 0: the constructor puts
\* 30000 in its place)
StartTimer(t) ==
  LET s == StopTimer(t)
  IN  [syncTimer |-> <<s.timerCount + 1>>, intervals |-> s.intervals \cup {s.timerCount + 1},
       timerCount |-> s.timerCount + 1]

\* the constructor: startAutoSync if config.autoSync
ConstructTimer(auto, t) == IF auto THEN StartTimer(t) ELSE t

SetTimers(t) ==
  /\ syncTimer' = t.syncTimer
  /\ intervals' = t.intervals
  /\ timerCount' = t.timerCount

\* the state after construction, for a configuration and an environment drawn
\* from the given sets
InitAuto(strategies, resolutions, attempts, points, saved, autos) ==
  /\ strategy \in strategies
  /\ conflictResolution \in resolutions
  /\ retryAttempts \in attempts
  /\ failPoints = points
  /\ payloads = saved
  /\ clock = 1
  /\ localStore = EmptyMap
  /\ sessionList = <<>>
  /\ localActive = <<>>
  /\ remoteStore = EmptyMap
  /\ isOnline = TRUE
  /\ remoteActive = <<>>
  /\ pendingSyncs = <<>>
  /\ bgPushes = {}
  /\ tick = IdleTick
  /\ call = IdleCall
  /\ autoSync \in autos
  /\ syncTimer = ConstructTimer(autoSync, NoTimers).syncTimer
  /\ intervals = ConstructTimer(autoSync, NoTimers).intervals
  /\ timerCount = ConstructTimer(autoSync, NoTimers).timerCount
  /\ globalStateSync = TRUE

\* autoSync left at its default (true)
InitFor(strategies, resolutions, attempts, points, saved) ==
  InitAuto(strategies, resolutions, attempts, points, saved, {TRUE})

InitWith(strategies, resolutions, attempts, points) ==
  InitFor(strategies, resolutions, attempts, points, Payloads)

Init == InitWith(Strategies, Resolutions, {DefaultRetryAttempts}, SaveFailPoints)

\* the part of the state an operation of the caller can change before it
\* next suspends
Mutable ==
  [store |-> localStore, list |-> sessionList, active |-> localActive,
   pending |-> pendingSyncs, bg |-> bgPushes]

Commit(m) ==
  /\ localStore' = m.store
  /\ sessionList' = m.list
  /\ localActive' = m.active
  /\ pendingSyncs' = m.pending
  /\ bgPushes' = m.bg

\* an operation whose current adapter is the backend issues its request and
\* suspends on it; BackendAdapter.saveState builds its body with the present
\* time
Issue(c) ==
  [c EXCEPT !.pc = "await", !.sentAt = IF c.op = "save" THEN clock ELSE 0]

\* An operation that has finished resolves its promise and the caller's
\* continuation runs as a microtask, before the event loop takes the next
\* timer or network event: nothing else happens while a result is handed over.
\* The same holds for a rejected promise (pc "throw"): an exception that left
\* the operation reaches the caller's catch.
NoHandOver == call.pc \notin {"ret", "throw"}

\* time passes
AdvanceClock ==
  /\ NoHandOver
  /\ clock < MaxClock
  /\ clock' = clock + 1
  /\ UNCHANGED <<config, timerVars, localVars, remoteVars, pendingSyncs, bgPushes, tick, call>>

\* ---- saveState
\* variant: the loop has no backend-first break
SaveNextNoBreak(c, result, stored) ==
  LET results == Append(c.results, result)
  IN  IF c.idx = Len(Order("save"))
        THEN [c EXCEPT !.results = results, !.stored = stored, !.attempts = 0,
                       !.pc = "ret", !.result = <<PrimaryResult(results)>>]
        ELSE [c EXCEPT !.results = results, !.stored = stored, !.attempts = 0,
                       !.pc = "attempt", !.idx = c.idx + 1]

\* saveState's loop after saveToAdapter returned `result` for the current
\* adapter: results.push, the backend-first break, the next adapter or the
\* return of the primary result
SaveNext(c, result, stored) ==
  LET results == Append(c.results, result)
      order == Order("save")
      stop == \/ (strategy = "backend-first" /\ order[c.idx] = "backend" /\ result.success)
              \/ c.idx = Len(order)
  IN  IF stop
        THEN [c EXCEPT !.results = results, !.stored = stored, !.attempts = 0,
                       !.pc = "ret", !.result = <<PrimaryResult(results)>>]
        ELSE [c EXCEPT !.results = results, !.stored = stored, !.attempts = 0,
                       !.pc = "attempt", !.idx = c.idx + 1]

\* variant: one more attempt is made before giving up
SaveRetryOneMore(c, error) ==
  IF c.attempts + 1 <= retryAttempts
    THEN [c EXCEPT !.attempts = c.attempts + 1, !.pc = "delay"]
    ELSE SaveNext(c, FailResult(c.sessionId, error), c.stored)

\* saveToAdapter after a failed attempt: wait retryDelay and try again, or
\* give up with the last error
SaveRetry(c, error) ==
  IF c.attempts + 1 < retryAttempts
    THEN [c EXCEPT !.attempts = c.attempts + 1, !.pc = "delay"]
    ELSE SaveNext(c, FailResult(c.sessionId, error), c.stored)

\* queueBackendSync: store the pending entry and fire backend.saveState
\* without awaiting it
QueueBackendSync(m, sessionId, dataState, activeTab) ==
  [m EXCEPT !.pending = PendingSet(m.pending, PendingEntry(sessionId, dataState, activeTab)),
            !.bg = m.bg \cup {PostBody(sessionId, dataState, activeTab, clock)}]

\* one saveToAdapter attempt on the localStorage adapter; under local-first
\* a success is followed by queueBackendSync
SaveLocalAttempt(c, m, failAt) ==
  LET r == LocalSaveState(m.store, m.list, m.active, c.sessionId, c.dataState,
                          c.activeTab, clock, failAt)
      m1 == [m EXCEPT !.store = r.store, !.list = r.list, !.active = r.active]
  IN  IF ~r.result.success
        THEN [call |-> SaveRetry(c, r.result.error), m |-> m1]
      ELSE [call |-> SaveNext(c, r.result, c.stored \cup {"localStorage"}),
            m |-> IF strategy = "local-first"
                    THEN QueueBackendSync(m1, c.sessionId, c.dataState, c.activeTab)
                    ELSE m1]

\* saveState runs from an attempt on the current adapter to its next
\* suspension (a request in flight, a retry delay) or to its return
SaveRun(c, m, failAt) ==
  IF Order("save")[c.idx] = "backend"
    THEN [call |-> Issue(c), m |-> m]
    ELSE LET a == SaveLocalAttempt(c, m, failAt)
         IN  IF a.call.pc = "attempt" THEN [call |-> Issue(a.call), m |-> a.m] ELSE a

\* the caller invokes saveState(sessionId, dataState, activeTab, type)
SaveStateBegin(sessionId, dataState, activeTab, failAt) ==
  /\ call.op = "idle"
  /\ Cardinality(bgPushes) < MaxBg
  /\ LET c == [IdleCall EXCEPT !.op = "save", !.pc = "attempt", !.sessionId = sessionId,
                               !.dataState = dataState, !.activeTab = activeTab, !.idx = 1]
         r == SaveRun(c, Mutable, failAt)
     IN  call' = r.call /\ Commit(r.m)
  /\ UNCHANGED <<config, timerVars, clock, remoteVars, tick>>

\* the remote service handles the POST of a saveToAdapter attempt and the
\* response resumes saveState
SaveRemoteDone(outcome, failAt) ==
  /\ call.op = "save" /\ call.pc = "await"
  /\ LET ok == outcome = "ok"
         body == PostBody(call.sessionId, call.dataState, call.activeTab, call.sentAt)
         c == IF ok
                THEN SaveNext(call, RemoteSaveResult(call.sessionId, TRUE),
                              call.stored \cup {"backend"})
                ELSE SaveRetry(call, RemoteError)
         r == IF c.pc = "attempt" THEN SaveRun(c, Mutable, failAt)
              ELSE [call |-> c, m |-> Mutable]
     IN  /\ remoteStore' = IF ok THEN ServerPut(remoteStore, body, clock) ELSE remoteStore
         /\ isOnline' = ok
         /\ call' = r.call
         /\ Commit(r.m)
  /\ UNCHANGED <<config, timerVars, remoteActive, clock, tick>>

\* saveToAdapter's delay(retryDelay) elapses and the next attempt is made
SaveRetryDelay(failAt) ==
  /\ call.op = "save" /\ call.pc = "delay"
  /\ LET r == SaveRun(call, Mutable, failAt)
     IN  call' = r.call /\ Commit(r.m)
  /\ UNCHANGED <<config, timerVars, clock, remoteVars, tick>>

\* the caller takes the result of the finished operation, or the exception
\* that left it (the result of an operation the migration called goes to the
\* migration)
Return ==
  /\ call.pc \in {"ret", "throw"}
  /\ ~call.mig.on
  /\ call' = IdleCall
  /\ UNCHANGED <<config, timerVars, clock, localVars, remoteVars, pendingSyncs, bgPushes, tick>>

\* ---- queueBackendSync's background push
\* the service handles a push fired by queueBackendSync; the .then removes
\* the session's pending entry on success
BgPushDone(body, outcome) ==
  /\ NoHandOver
  /\ body \in bgPushes
  /\ LET ok == outcome = "ok"
     IN  /\ remoteStore' = IF ok THEN ServerPut(remoteStore, body, clock) ELSE remoteStore
         /\ isOnline' = ok
         /\ pendingSyncs' = AfterPush(pendingSyncs, body.sessionId, ok)
  /\ bgPushes' = bgPushes \ {body}
  /\ UNCHANGED <<config, timerVars, remoteActive, clock, localVars, tick, call>>

\* ---- syncPendingChanges (the setInterval callback)
\* an interval timer of the browser fires: a tick starts, snapshots the queue and calls backend.saveState for the
\* first entry (a tick over an empty queue does nothing)
TickStart ==
  /\ NoHandOver
  /\ intervals # {}
  /\ tick.pc = "idle"
  /\ pendingSyncs # <<>>
  /\ tick' = [pc |-> "await", queue |-> pendingSyncs, sentAt |-> clock]
  /\ UNCHANGED <<config, timerVars, clock, localVars, remoteVars, pendingSyncs, bgPushes, call>>

\* the service handles the tick's push; on success the session's entry is
\* deleted; the loop calls backend.saveState for the next snapshot entry
TickDone(outcome) ==
  /\ NoHandOver
  /\ tick.pc = "await"
  /\ LET ok == outcome = "ok"
         e == tick.queue[1]
         body == PostBody(e.sessionId, e.dataState, e.activeTab, tick.sentAt)
     IN  /\ remoteStore' = IF ok THEN ServerPut(remoteStore, body, clock) ELSE remoteStore
         /\ isOnline' = ok
         /\ pendingSyncs' = AfterPush(pendingSyncs, e.sessionId, ok)
  /\ tick' = IF Len(tick.queue) = 1 THEN IdleTick
             ELSE [pc |-> "await", queue |-> Tail(tick.queue), sentAt |-> clock]
  /\ UNCHANGED <<config, timerVars, remoteActive, clock, localVars, bgPushes, call>>

\* BackendAdapter.loadState's isOnline update: true on data, otherwise
\* response.status !== 0
OnlineAfterGet(outcome) == outcome # "network"

\* ---- loadState
\* loadState's loop after adapter.loadState answered `state`: keep it if not
\* null, go to the next adapter or return
LoadNext(c, state) ==
  LET name == Order("load")[c.idx]
      states == IF state # <<>>
                  THEN Append(c.states, [adapter |-> name, state |-> state[1]])
                  ELSE c.states
  IN  IF c.idx = Len(Order("load"))
        THEN [c EXCEPT !.states = states, !.pc = "ret",
                       !.result = LoadResult(states, conflictResolution)]
        ELSE [c EXCEPT !.states = states, !.pc = "attempt", !.idx = c.idx + 1]

\* loadState runs to its next suspension or to its return
LoadRun(c) ==
  IF Order("load")[c.idx] = "backend" THEN Issue(c)
  ELSE LET c1 == LoadNext(c, LocalLoad(localStore, c.sessionId))
       IN  IF c1.pc = "attempt" THEN Issue(c1) ELSE c1

LoadStateBegin(sessionId) ==
  /\ call.op = "idle"
  /\ call' = LoadRun([IdleCall EXCEPT !.op = "load", !.pc = "attempt",
                                      !.sessionId = sessionId, !.idx = 1])
  /\ UNCHANGED <<config, timerVars, clock, localVars, remoteVars, pendingSyncs, bgPushes, tick>>

LoadRemoteDone(outcome) ==
  /\ call.op = "load" /\ call.pc = "await"
  /\ isOnline' = OnlineAfterGet(outcome)
  /\ LET c == LoadNext(call, RemoteLoad(remoteStore, call.sessionId, outcome = "ok"))
     IN  call' = IF c.pc = "attempt" THEN LoadRun(c) ELSE c
  /\ UNCHANGED <<config, timerVars, remoteActive, clock, localVars, remoteStore, pendingSyncs,
                 bgPushes, tick>>

\* ---- deleteSession
\* variant: success only if every adapter succeeded
DeleteResultEvery(sessionId, results) ==
  IF \A i \in 1..Len(results) : results[i].success
    THEN OkResult(sessionId, "")
    ELSE FailResult(sessionId, "Failed to delete from all adapters")

\* deleteSession's value: success if at least one adapter succeeded
DeleteResult(sessionId, results) ==
  IF \E i \in 1..Len(results) : results[i].success
    THEN OkResult(sessionId, "")
    ELSE FailResult(sessionId, "Failed to delete from all adapters")

DeleteNext(c, result) ==
  LET results == Append(c.results, result)
  IN  IF c.idx = Len(Order("delete"))
        THEN [c EXCEPT !.results = results, !.pc = "ret",
                       !.result = <<DeleteResult(c.sessionId, results)>>]
        ELSE [c EXCEPT !.results = results, !.pc = "attempt", !.idx = c.idx + 1]

\* the caller invokes deleteSession: the localStorage adapter deletes, then
\* the DELETE request to the remote service is issued
DeleteSessionBegin(sessionId, failAt) ==
  /\ call.op = "idle"
  /\ LET r == LocalDeleteSession(localStore, sessionList, localActive, sessionId, failAt)
         c == DeleteNext([IdleCall EXCEPT !.op = "delete", !.pc = "attempt",
                                          !.sessionId = sessionId, !.idx = 1], r.result)
     IN  /\ localStore' = r.store
         /\ sessionList' = r.list
         /\ localActive' = r.active
         /\ call' = Issue(c)
  /\ UNCHANGED <<config, timerVars, clock, remoteVars, pendingSyncs, bgPushes, tick>>

DeleteRemoteDone(outcome) ==
  /\ call.op = "delete" /\ call.pc = "await"
  /\ LET ok == outcome = "ok"
     IN  /\ remoteStore' = IF ok THEN ServerDelete(remoteStore, call.sessionId)
                           ELSE remoteStore
         /\ isOnline' = ok
         /\ call' = DeleteNext(call, RemoteDeleteResult(call.sessionId, ok))
  /\ UNCHANGED <<config, timerVars, remoteActive, clock, localVars, pendingSyncs, bgPushes, tick>>

\* ---- getSyncStatus
\* getSyncStatus' loop after adapter.loadState answered `state`; results
\* holds the adapters array, states the records found
StatusNext(c, state) ==
  LET name == Order("status")[c.idx]
      entries == Append(c.results, StatusEntry(name, state))
      states == IF state # <<>>
                  THEN Append(c.states, [adapter |-> name, state |-> state[1]])
                  ELSE c.states
  IN  IF c.idx = Len(Order("status"))
        THEN [c EXCEPT !.results = entries, !.states = states, !.pc = "ret",
                       !.result = <<[adapters |-> entries,
                                     needsSync |-> NeedsSync(entries,
                                                     LatestTimestamp(<<>>, states))]>>]
        ELSE [c EXCEPT !.results = entries, !.states = states, !.pc = "attempt",
                       !.idx = c.idx + 1]

\* the caller invokes getSyncStatus: the localStorage adapter answers, then
\* the GET request to the remote service is issued
GetSyncStatusBegin(sessionId) ==
  /\ call.op = "idle"
  /\ call' = Issue(StatusNext([IdleCall EXCEPT !.op = "status", !.pc = "attempt",
                                               !.sessionId = sessionId, !.idx = 1],
                              LocalLoad(localStore, sessionId)))
  /\ UNCHANGED <<config, timerVars, clock, localVars, remoteVars, pendingSyncs, bgPushes, tick>>

StatusRemoteDone(outcome) ==
  /\ call.op = "status" /\ call.pc = "await"
  /\ isOnline' = OnlineAfterGet(outcome)
  /\ call' = StatusNext(call, RemoteLoad(remoteStore, call.sessionId, outcome = "ok"))
  /\ UNCHANGED <<config, timerVars, remoteActive, clock, localVars, remoteStore, pendingSyncs,
                 bgPushes, tick>>

\* ---- setActiveSessionId
\* the caller invokes setActiveSessionId: the localStorage adapter stores
\* the id, whether or not a record of it exists, then POST /sessions/active
\* is issued.  failAt = 3: the localStorage.setItem of the pointer throws;
\* neither LocalStorageAdapter.setActiveSessionId nor the orchestrator's
\* loop catches, so the exception leaves the operation.
SetActiveSessionIdBegin(sessionId, failAt) ==
  /\ call.op = "idle"
  /\ localActive' = IF failAt = 3 THEN localActive ELSE <<sessionId>>
  /\ call' = IF failAt = 3
               THEN [IdleCall EXCEPT !.op = "setActive", !.sessionId = sessionId,
                                     !.idx = 1, !.pc = "throw"]
               ELSE Issue([IdleCall EXCEPT !.op = "setActive", !.sessionId = sessionId,
                                           !.idx = 2])
  /\ UNCHANGED <<config, timerVars, clock, localStore, sessionList, remoteVars, pendingSyncs,
                 bgPushes, tick>>

\* BackendAdapter.setActiveSessionId: client.post resolves whatever the
\* answer, so isOnline becomes true.  results logs the answer, which the
\* adapter discards.
SetActiveRemoteDone(outcome) ==
  /\ call.op = "setActive" /\ call.pc = "await"
  /\ isOnline' = TRUE
  /\ remoteActive' = IF outcome = "ok" THEN ServerSetActive(call.sessionId) ELSE remoteActive
  /\ call' = [call EXCEPT !.pc = "ret",
                           !.results = <<RemoteDeleteResult(call.sessionId, outcome = "ok")>>]
  /\ UNCHANGED <<config, timerVars, clock, localVars, remoteStore, pendingSyncs, bgPushes, tick>>

\* ---- getActiveSessionId
\* getPrimaryAdapter().getActiveSessionId(): the primary adapter is the first
\* of the strategy's order.  The localStorage adapter answers with its
\* pointer at once; for the backend adapter GET /sessions/active is issued.
GetActiveStart(c) ==
  IF GetAdaptersByStrategy(strategy)[1] = "localStorage"
    THEN [c EXCEPT !.pc = "ret", !.result = localActive]
    ELSE Issue(c)

GetActiveSessionIdBegin ==
  /\ call.op = "idle"
  /\ call' = GetActiveStart([IdleCall EXCEPT !.op = "getActive"])
  /\ UNCHANGED <<config, timerVars, clock, localVars, remoteVars, pendingSyncs, bgPushes, tick>>

\* a caller that awaits saveState and, on success, calls getActiveSessionId
\* in its continuation; sessionId keeps the session that was saved
GetActiveAfterSave ==
  /\ call.op = "save" /\ call.pc = "ret"
  /\ call.result[1].success
  /\ call' = GetActiveStart([IdleCall EXCEPT !.op = "getActive", !.after = "saveState",
                                             !.sessionId = call.sessionId,
                                             !.stored = call.stored])
  /\ UNCHANGED <<config, timerVars, clock, localVars, remoteVars, pendingSyncs, bgPushes, tick>>

\* BackendAdapter.getActiveSessionId: the service's pointer, null when the
\* response carries an error or no data
GetActiveRemoteDone(outcome) ==
  /\ call.op = "getActive" /\ call.pc = "await"
  /\ isOnline' = OnlineAfterGet(outcome)
  /\ call' = [call EXCEPT !.pc = "ret",
                           !.result = IF outcome = "ok" THEN remoteActive ELSE <<>>]
  /\ UNCHANGED <<config, timerVars, remoteActive, clock, localVars, remoteStore, pendingSyncs, bgPushes,
                 tick>>

\* ---- listSessions
\* the caller invokes listSessions: the localStorage adapter answers, then
\* GET /sessions is issued; states holds what each adapter returned
ListSessionsBegin ==
  /\ call.op = "idle"
  /\ call' = Issue([IdleCall EXCEPT
                      !.op = "list", !.idx = 2,
                      !.states = <<[adapter |-> "localStorage",
                                    sessions |-> LocalListSessions(localStore, sessionList)]>>])
  /\ UNCHANGED <<config, timerVars, clock, localVars, remoteVars, pendingSyncs, bgPushes, tick>>

ListRemoteDone(outcome, order) ==
  /\ call.op = "list" /\ call.pc = "await"
  /\ isOnline' = OnlineAfterGet(outcome)
  /\ LET lists == Append(call.states,
                         [adapter |-> "backend",
                          sessions |-> RemoteListSessions(remoteStore, order, outcome = "ok")])
     IN  call' = [call EXCEPT !.states = lists, !.pc = "ret",
                              !.result = <<ListResult(lists)>>]
  /\ UNCHANGED <<config, timerVars, remoteActive, clock, localVars, remoteStore, pendingSyncs, bgPushes, tick>>

\* a caller that awaits clearAll and, on success, calls listSessions in its
\* continuation: `await sync.clearAll(); await sync.listSessions()`
ListAfterClearAll ==
  /\ call.op = "clear" /\ call.pc = "ret"
  /\ call.result[1].success
  /\ call' = Issue([IdleCall EXCEPT
                      !.op = "list", !.idx = 2, !.after = "clearAll",
                      !.states = <<[adapter |-> "localStorage",
                                    sessions |-> LocalListSessions(localStore, sessionList)]>>])
  /\ UNCHANGED <<config, timerVars, clock, localVars, remoteVars, pendingSyncs, bgPushes, tick>>

\* ---- clearAll
\* the caller invokes clearAll: the localStorage adapter clears, then
\* DELETE /sessions is issued
ClearAllBegin ==
  /\ call.op = "idle"
  /\ LET r == LocalClearAll(localStore, sessionList, localActive)
     IN  /\ localStore' = r.store
         /\ sessionList' = r.list
         /\ localActive' = r.active
         /\ call' = Issue([IdleCall EXCEPT !.op = "clear", !.idx = 2,
                                           !.results = <<r.result>>])
  /\ UNCHANGED <<config, timerVars, clock, remoteVars, pendingSyncs, bgPushes, tick>>

\* the remote service handles DELETE /sessions (it drops every record) and
\* the response resumes clearAll
ClearAllRemoteDone(outcome) ==
  /\ call.op = "clear" /\ call.pc = "await"
  /\ LET ok == outcome = "ok"
         results == Append(call.results, RemoteClearResult(ok))
     IN  /\ remoteStore' = IF ok THEN ServerClear(remoteStore) ELSE remoteStore
         /\ isOnline' = ok
         /\ call' = [call EXCEPT !.results = results, !.pc = "ret",
                                  !.result = <<ClearAllResult(results)>>]
  /\ UNCHANGED <<config, timerVars, remoteActive, clock, localVars, pendingSyncs, bgPushes, tick>>

\* ---- syncNow
\* syncNow moves on to the next session of its list: syncSession asks the
\* localStorage adapter for it and issues the GET to the remote service;
\* with no session left syncNow returns
SyncNextSession(c, queue, store) ==
  IF queue = <<>>
    THEN [c EXCEPT !.queue = <<>>, !.states = <<>>, !.pc = "ret"]
    ELSE LET state == LocalLoad(store, queue[1])
         IN  [c EXCEPT !.queue = Tail(queue), !.sessionId = queue[1], !.pc = "awaitLoad",
                       !.states = IF state # <<>>
                                    THEN <<[adapter |-> "localStorage", state |-> state[1]]>>
                                    ELSE <<>>]

\* the caller invokes syncNow: listSessions starts.  before keeps the
\* records both adapters held at this moment.
SyncNowBegin ==
  /\ call.op = "idle"
  /\ call' = [IdleCall EXCEPT
                !.op = "sync", !.pc = "awaitList",
                !.states = <<[adapter |-> "localStorage",
                              sessions |-> LocalListSessions(localStore, sessionList)]>>,
                !.before = <<[local |-> localStore, remote |-> remoteStore]>>]
  /\ UNCHANGED <<config, timerVars, clock, localVars, remoteVars, pendingSyncs, bgPushes, tick>>

\* GET /sessions is answered: the merged list is the list of sessions to
\* sync, and syncSession starts for the first one
SyncListDone(outcome, order) ==
  /\ call.op = "sync" /\ call.pc = "awaitList"
  /\ isOnline' = OnlineAfterGet(outcome)
  /\ LET lists == Append(call.states,
                         [adapter |-> "backend",
                          sessions |-> RemoteListSessions(remoteStore, order, outcome = "ok")])
         sessions == ListResult(lists)
         ok == IF outcome = "ok" THEN <<>> ELSE <<FailResult("", ReadError)>>
     IN  call' = SyncNextSession([call EXCEPT !.results = ok],
                                 [i \in 1..Len(sessions) |-> sessions[i].sessionId],
                                 localStore)
  /\ UNCHANGED <<config, timerVars, remoteActive, clock, localVars, remoteStore, pendingSyncs, bgPushes, tick>>

\* syncSession's GET is answered: the latest state found is written to the
\* other adapter, at once if that is localStorage, by a POST if it is the
\* backend.  results logs the answers to syncSession's requests and writes,
\* which the code itself ignores.
SyncLoadDone(outcome, failAt) ==
  /\ call.op = "sync" /\ call.pc = "awaitLoad"
  /\ isOnline' = OnlineAfterGet(outcome)
  /\ LET state == RemoteLoad(remoteStore, call.sessionId, outcome = "ok")
         states == IF state # <<>>
                     THEN Append(call.states, [adapter |-> "backend", state |-> state[1]])
                     ELSE call.states
         c == [call EXCEPT !.states = states,
                           !.results = IF outcome = "ok" THEN @
                                       ELSE Append(@, FailResult(call.sessionId, ReadError))]
     IN  IF states = <<>>
           THEN /\ UNCHANGED localVars
                /\ call' = SyncNextSession(c, c.queue, localStore)
         ELSE IF SyncLatest(states).adapter = "backend"
           THEN LET latest == SyncLatest(states).state
                    r == LocalSaveState(localStore, sessionList, localActive, call.sessionId,
                                        latest.dataState, latest.activeTab, clock, failAt)
                IN  /\ localStore' = r.store
                    /\ sessionList' = r.list
                    /\ localActive' = r.active
                    /\ call' = SyncNextSession([c EXCEPT !.results = Append(@, r.result)],
                                                c.queue, r.store)
         ELSE /\ UNCHANGED localVars
              /\ call' = [c EXCEPT !.pc = "awaitSave", !.sentAt = clock,
                                    !.dataState = SyncLatest(states).state.dataState,
                                    !.activeTab = SyncLatest(states).state.activeTab]
  /\ UNCHANGED <<config, timerVars, remoteActive, clock, remoteStore, pendingSyncs, bgPushes, tick>>

\* the remote service handles syncSession's POST
SyncSaveDone(outcome) ==
  /\ call.op = "sync" /\ call.pc = "awaitSave"
  /\ LET ok == outcome = "ok"
         body == PostBody(call.sessionId, call.dataState, call.activeTab, call.sentAt)
     IN  /\ remoteStore' = IF ok THEN ServerPut(remoteStore, body, clock) ELSE remoteStore
         /\ isOnline' = ok
         /\ UNCHANGED localVars
         /\ call' = SyncNextSession(
                       [call EXCEPT !.results = Append(@, RemoteSaveResult(call.sessionId, ok)),
                                    !.dataState = NoDataState, !.activeTab = ""],
                       call.queue, localStore)
  /\ UNCHANGED <<config, timerVars, remoteActive, clock, pendingSyncs, bgPushes, tick>>

\* ---- migrateLocalSessionsToBackend
\* The migration calls the orchestrator's listSessions, then for each session
\* getSyncStatus and, where it decides to push, loadState and saveState; each
\* step below is the code that runs when the awaited operation has returned.
\* The adapters catch their own errors in these four operations, so the
\* try/catch around the loop body has nothing to catch and failed stays [].

\* the operation the migration awaits has returned
AtMigrationReturn(op) == call.op = op /\ call.pc = "ret"

\* the loop goes to its next session (getSyncStatus is called: the localStorage
\* adapter answers, the GET to the remote service is issued) or, with none
\* left, the migration returns its result
MigrateNext(m) ==
  IF m.queue = <<>>
    THEN [IdleCall EXCEPT !.op = "migrate", !.pc = "ret", !.mig = [m EXCEPT !.on = FALSE]]
    ELSE Issue(StatusNext([IdleCall EXCEPT !.op = "status", !.pc = "attempt",
                                           !.sessionId = m.queue[1], !.idx = 1, !.mig = m],
                          LocalLoad(localStore, m.queue[1])))

\* the caller invokes migrateLocalSessionsToBackend: stateSync.listSessions()
MigrateBegin ==
  /\ call.op = "idle"
  /\ call' = Issue([IdleCall EXCEPT
                      !.op = "list", !.idx = 2,
                      !.states = <<[adapter |-> "localStorage",
                                    sessions |-> LocalListSessions(localStore, sessionList)]>>,
                      !.mig = [NoMigration EXCEPT !.on = TRUE]])
  /\ UNCHANGED <<config, timerVars, clock, localVars, remoteVars, pendingSyncs, bgPushes, tick>>

\* listSessions has returned: totalSessions is the length of the list
MigrateAfterList ==
  /\ call.mig.on /\ AtMigrationReturn("list")
  /\ LET sessions == call.result[1]
     IN  call' = MigrateNext([call.mig EXCEPT
                                !.totalSessions = Len(sessions),
                                !.queue = [i \in 1..Len(sessions) |-> sessions[i].sessionId]])
  /\ UNCHANGED <<config, timerVars, clock, localVars, remoteVars, pendingSyncs, bgPushes, tick>>

\* syncStatus.adapters.find(a => a.name === name)?.synced
AdapterSynced(entries, name) ==
  \E i \in 1..Len(entries) : entries[i].name = name /\ entries[i].synced

\* getSyncStatus has returned: a session on-device and not on the backend is
\* loaded (stateSync.loadState) to be pushed, one on the backend is counted
\* as already synced, any other is passed over
MigrateAfterStatus ==
  /\ call.mig.on /\ AtMigrationReturn("status")
  /\ LET entries == call.result[1].adapters
         rest == [call.mig EXCEPT !.queue = Tail(@)]
     IN  call' =
           IF AdapterSynced(entries, "localStorage") /\ ~AdapterSynced(entries, "backend")
             THEN LoadRun([IdleCall EXCEPT !.op = "load", !.pc = "attempt",
                                           !.sessionId = call.sessionId, !.idx = 1,
                                           !.mig = call.mig])
           ELSE IF AdapterSynced(entries, "backend")
             THEN MigrateNext([rest EXCEPT !.alreadySynced = @ + 1])
           ELSE MigrateNext(rest)
  /\ UNCHANGED <<config, timerVars, clock, localVars, remoteVars, pendingSyncs, bgPushes, tick>>

\* loadState has returned: if it found the session, stateSync.saveState is
\* called with what was loaded; if not, the session is passed over
MigrateAfterLoad(failAt) ==
  /\ call.mig.on /\ AtMigrationReturn("load")
  /\ IF call.result # <<>>
       THEN LET c == [IdleCall EXCEPT !.op = "save", !.pc = "attempt",
                                      !.sessionId = call.sessionId,
                                      !.dataState = call.result[1].dataState,
                                      !.activeTab = call.result[1].activeTab,
                                      !.idx = 1, !.mig = call.mig]
                r == SaveRun(c, Mutable, failAt)
            IN  call' = r.call /\ Commit(r.m)
       ELSE /\ call' = MigrateNext([call.mig EXCEPT !.queue = Tail(@)])
            /\ UNCHANGED <<localVars, pendingSyncs, bgPushes>>
  /\ UNCHANGED <<config, timerVars, clock, remoteVars, tick>>

\* saveState has returned: migratedToBackend++ (its SyncResult is not read)
MigrateAfterSave ==
  /\ call.mig.on /\ AtMigrationReturn("save")
  /\ call' = MigrateNext([call.mig EXCEPT !.queue = Tail(@), !.migratedToBackend = @ + 1])
  /\ UNCHANGED <<config, timerVars, clock, localVars, remoteVars, pendingSyncs, bgPushes, tick>>

\* ---- BackendAdapter.saveState called on its own, request by phases
\* ApiClient.request arms setTimeout(() => controller.abort(), timeout),
\* awaits fetch (which resolves when the response's status and headers have
\* arrived), calls clearTimeout, and then awaits the body (response.text() or
\* response.json()).  timer: the abort timer is armed.  response: the status
\* class received.

\* a caller of the adapter invokes saveState: the POST is built and sent
RemoteAdapterSaveState(sessionId, dataState, activeTab) ==
  /\ call.op = "idle"
  /\ call' = [IdleCall EXCEPT
                !.op = "remoteSave", !.pc = "fetch", !.sessionId = sessionId,
                !.dataState = dataState, !.activeTab = activeTab, !.sentAt = clock,
                !.timer = TRUE]
  /\ UNCHANGED <<config, timerVars, clock, localVars, remoteVars, pendingSyncs, bgPushes, tick>>

\* the service handles the POST and the head of its response arrives: fetch
\* resolves and the timer is cleared; the body is still to be read
FetchResponds(status) ==
  /\ call.op = "remoteSave" /\ call.pc = "fetch"
  /\ remoteStore' = IF status = "ok"
                      THEN ServerPut(remoteStore,
                                     PostBody(call.sessionId, call.dataState,
                                              call.activeTab, call.sentAt), clock)
                      ELSE remoteStore
  /\ call' = [call EXCEPT !.pc = "body", !.timer = FALSE, !.response = status]
  /\ UNCHANGED <<config, timerVars, clock, localVars, isOnline, remoteActive, pendingSyncs,
                 bgPushes, tick>>

\* no connection: fetch rejects, the catch clears the timer and answers
\* {error, status 0}; saveState returns the failure
FetchRejects ==
  /\ call.op = "remoteSave" /\ call.pc = "fetch"
  /\ isOnline' = FALSE
  /\ call' = [call EXCEPT !.pc = "ret", !.timer = FALSE,
                          !.result = <<RemoteSaveResult(call.sessionId, FALSE)>>]
  /\ UNCHANGED <<config, timerVars, clock, localVars, remoteStore, remoteActive, pendingSyncs,
                 bgPushes, tick>>

\* the timer fires while fetch is pending: controller.abort() rejects fetch
\* with an AbortError, the catch answers {error: 'Request timeout', status
\* 408}; saveState returns the failure.  reached: the service had received
\* and stored the POST before the abort.
AbortTimerFires(reached) ==
  /\ call.op = "remoteSave" /\ call.pc = "fetch" /\ call.timer
  /\ remoteStore' = IF reached
                      THEN ServerPut(remoteStore,
                                     PostBody(call.sessionId, call.dataState,
                                              call.activeTab, call.sentAt), clock)
                      ELSE remoteStore
  /\ isOnline' = FALSE
  /\ call' = [call EXCEPT !.pc = "ret", !.timer = FALSE, !.response = "timeout",
                          !.result = <<FailResult(call.sessionId, TimeoutError)>>]
  /\ UNCHANGED <<config, timerVars, clock, localVars, remoteActive, pendingSyncs, bgPushes, tick>>

\* the body has arrived: response.json() (status ok) or response.text()
\* (error status) resolves and saveState returns
BodyRead ==
  /\ call.op = "remoteSave" /\ call.pc = "body"
  /\ isOnline' = (call.response = "ok")
  /\ call' = [call EXCEPT !.pc = "ret",
                          !.result = <<RemoteSaveResult(call.sessionId, call.response = "ok")>>]
  /\ UNCHANGED <<config, timerVars, clock, localVars, remoteStore, remoteActive, pendingSyncs,
                 bgPushes, tick>>

\* ---- LocalStorageAdapter.saveState called on its own
\* A caller of the adapter (the orchestrator's saveToAdapter and syncSession
\* are such callers) invokes saveState and takes its SyncResult.  sentAt
\* keeps `now`, before the three localStorage values as they were.
LocalAdapterSaveState(sessionId, dataState, activeTab, failAt) ==
  /\ call.op = "idle"
  /\ LET r == LocalSaveState(localStore, sessionList, localActive, sessionId, dataState,
                             activeTab, clock, failAt)
     IN  /\ localStore' = r.store
         /\ sessionList' = r.list
         /\ localActive' = r.active
         /\ call' = [IdleCall EXCEPT
                       !.op = "localSave", !.pc = "ret", !.sessionId = sessionId,
                       !.dataState = dataState, !.activeTab = activeTab, !.sentAt = clock,
                       !.result = <<r.result>>,
                       !.before = <<[local |-> localStore, list |-> sessionList,
                                     active |-> localActive]>>]
  /\ UNCHANGED <<config, timerVars, clock, remoteVars, pendingSyncs, bgPushes, tick>>

\* hasSession: the record's key is present (the session list is not read)
LocalHasSession(store, sessionId) == sessionId \in DOMAIN store

\* The caller's record of an adapter call that returned at once: what it
\* was given, its result, and the three localStorage values as they were.
LocalAdapterCall(op, sessionId, result) ==
  [IdleCall EXCEPT !.op = op, !.pc = "ret", !.sessionId = sessionId, !.sentAt = clock,
                   !.result = result,
                   !.before = <<[local |-> localStore, list |-> sessionList,
                                 active |-> localActive]>>]

\* ---- LocalStorageAdapter.deleteSession called on its own
LocalAdapterDeleteSession(sessionId, failAt) ==
  /\ call.op = "idle"
  /\ LET r == LocalDeleteSession(localStore, sessionList, localActive, sessionId, failAt)
     IN  /\ localStore' = r.store
         /\ sessionList' = r.list
         /\ localActive' = r.active
         /\ call' = LocalAdapterCall("localDelete", sessionId, <<r.result>>)
  /\ UNCHANGED <<config, timerVars, clock, remoteVars, pendingSyncs, bgPushes, tick>>

\* ---- LocalStorageAdapter.clearAll called on its own
LocalAdapterClearAll ==
  /\ call.op = "idle"
  /\ LET r == LocalClearAll(localStore, sessionList, localActive)
     IN  /\ localStore' = r.store
         /\ sessionList' = r.list
         /\ localActive' = r.active
         /\ call' = LocalAdapterCall("localClear", "all", <<r.result>>)
  /\ UNCHANGED <<config, timerVars, clock, remoteVars, pendingSyncs, bgPushes, tick>>

\* ---- LocalStorageAdapter.loadState, hasSession and listSessions called on
\* their own: each reads localStorage and writes nothing
LocalAdapterLoadState(sessionId) ==
  /\ call.op = "idle"
  /\ call' = LocalAdapterCall("localLoad", sessionId, LocalLoad(localStore, sessionId))
  /\ UNCHANGED <<config, timerVars, clock, localVars, remoteVars, pendingSyncs, bgPushes, tick>>

LocalAdapterHasSession(sessionId) ==
  /\ call.op = "idle"
  /\ call' = LocalAdapterCall("localHas", sessionId,
                              <<LocalHasSession(localStore, sessionId)>>)
  /\ UNCHANGED <<config, timerVars, clock, localVars, remoteVars, pendingSyncs, bgPushes, tick>>

LocalAdapterListSessions ==
  /\ call.op = "idle"
  /\ call' = LocalAdapterCall("localList", "all", LocalListSessions(localStore, sessionList))
  /\ UNCHANGED <<config, timerVars, clock, localVars, remoteVars, pendingSyncs, bgPushes, tick>>

\* ---- startAutoSync, stopAutoSync, resetStateSync, getStateSync
\* the caller invokes startAutoSync
StartAutoSync ==
  /\ timerCount < MaxTimers
  /\ SetTimers(StartTimer(Timers))
  /\ UNCHANGED <<config, globalStateSync, clock, localVars, remoteVars, pendingSyncs,
                 bgPushes, tick, call>>

\* the caller invokes stopAutoSync; a syncPendingChanges that is running
\* goes on
StopAutoSync ==
  /\ SetTimers(StopTimer(Timers))
  /\ UNCHANGED <<config, globalStateSync, clock, localVars, remoteVars, pendingSyncs,
                 bgPushes, tick, call>>

\* resetStateSync: stopAutoSync on the global instance, which is then dropped
ResetStateSync ==
  /\ globalStateSync
  /\ SetTimers(StopTimer(Timers))
  /\ globalStateSync' = FALSE
  /\ UNCHANGED <<config, clock, localVars, remoteVars, pendingSyncs, bgPushes, tick, call>>

\* getStateSync when there is no global instance: createStateSync constructs
\* one, with an empty pendingSyncs, new adapters and its own timer.  The
\* variables then stand for the new instance: the step is taken once the
\* work of the instance that was dropped has drained and its timer is stopped.
GetStateSync ==
  /\ ~globalStateSync
  /\ timerCount < MaxTimers
  /\ call.op = "idle" /\ tick.pc = "idle" /\ bgPushes = {} /\ syncTimer = <<>>
  /\ SetTimers(ConstructTimer(autoSync, Timers))
  /\ globalStateSync' = TRUE
  /\ pendingSyncs' = <<>>
  /\ isOnline' = TRUE
  /\ UNCHANGED <<config, clock, localVars, remoteStore, remoteActive, bgPushes, tick, call>>

\* ------------------------------------------------------------ specification
Next ==
  \/ AdvanceClock
  \/ \E s \in Sessions, p \in payloads, t \in Tabs, f \in failPoints :
        SaveStateBegin(s, p, t, f)
  \/ \E o \in WriteOutcomes, f \in failPoints : SaveRemoteDone(o, f)
  \/ \E f \in failPoints : SaveRetryDelay(f)
  \/ Return
  \/ \E b \in bgPushes, o \in WriteOutcomes : BgPushDone(b, o)
  \/ TickStart
  \/ \E o \in WriteOutcomes : TickDone(o)
  \/ \E s \in Sessions : LoadStateBegin(s)
  \/ \E o \in Outcomes : LoadRemoteDone(o)
  \/ \E s \in Sessions, f \in DeleteFailPoints \cap failPoints : DeleteSessionBegin(s, f)
  \/ \E o \in WriteOutcomes : DeleteRemoteDone(o)
  \/ \E s \in Sessions : GetSyncStatusBegin(s)
  \/ \E o \in Outcomes : StatusRemoteDone(o)

Spec == Init /\ [][Next]_vars

\* the shipped configuration (page.tsx: local-first, latest-wins; three
\* attempts per adapter write) with a localStorage that takes every write
InitLF == InitWith({"local-first"}, {"latest-wins"}, {DefaultRetryAttempts}, {0})
SpecLF == InitLF /\ [][Next]_vars

\* every strategy and every conflict policy: local-first with the shipped
\* policy, each other strategy with each policy; two attempts per adapter
\* write; the quota can be hit when the session record is written
InitConfigs ==
  /\ InitWith(Strategies, Resolutions, {DefaultRetryAttempts - 1}, 0..1)
  /\ (strategy = "local-first" => conflictResolution = "latest-wins")
SpecConfigs == InitConfigs /\ [][Next]_vars

\* the policies that do not compare timestamps, under both query orders
\* (local-first: localStorage then backend; backend-first: backend then
\* localStorage); two attempts per adapter write
InitPolicies ==
  InitWith({"local-first", "backend-first"}, {"backend-wins", "local-wins", "merge"},
           {DefaultRetryAttempts - 1}, {0})
SpecPolicies == InitPolicies /\ [][Next]_vars

\* the caller saves DataState values of every kind the type admits; the
\* shipped strategy and the one that writes both adapters in the foreground
InitRoundTrip ==
  InitFor({"local-first", "hybrid"}, {"latest-wins"}, {DefaultRetryAttempts - 1}, {0},
          TypedPayloads)
SpecRoundTrip == InitRoundTrip /\ [][Next]_vars

\* Several sessions and the operations over all of them (listSessions,
\* clearAll) next to saveState and deleteSession, under the strategy that
\* writes both adapters in the foreground: no push is queued, so the timer
\* finds nothing to do.  Remote requests can fail and the quota can be hit
\* when a session record is written.
ManySessions == {"s1", "s2"}

NextSessions ==
  \/ AdvanceClock
  \/ \E s \in ManySessions, p \in payloads, t \in Tabs, f \in failPoints :
        SaveStateBegin(s, p, t, f)
  \/ \E o \in WriteOutcomes, f \in failPoints : SaveRemoteDone(o, f)
  \/ \E f \in failPoints : SaveRetryDelay(f)
  \/ Return
  \/ \E s \in ManySessions, f \in DeleteFailPoints \cap failPoints : DeleteSessionBegin(s, f)
  \/ \E o \in WriteOutcomes : DeleteRemoteDone(o)
  \/ \E s \in ManySessions, f \in PointerFailPoints \cap failPoints :
        SetActiveSessionIdBegin(s, f)
  \/ \E o \in WriteOutcomes : SetActiveRemoteDone(o)
  \/ ListSessionsBegin
  \/ \E o \in Outcomes, order \in Orders(remoteStore) : ListRemoteDone(o, order)
  \/ ClearAllBegin
  \/ \E o \in WriteOutcomes : ClearAllRemoteDone(o)

InitSessions ==
  InitFor({"hybrid"}, {"latest-wins"}, {DefaultRetryAttempts - 1}, 0..1,
          {DataState("p1", StringV, NullV)})
SpecSessions == InitSessions /\ [][NextSessions]_vars

\* clearAll and listSessions next to the operations of the shipped
\* configuration, with its background pushes and its timer
NextClear ==
  \/ Next
  \/ ClearAllBegin
  \/ \E o \in WriteOutcomes : ClearAllRemoteDone(o)
  \/ ListSessionsBegin
  \/ \E o \in Outcomes, order \in Orders(remoteStore) : ListRemoteDone(o, order)
  \/ ListAfterClearAll

InitClear == InitWith({"local-first"}, {"latest-wins"}, {DefaultRetryAttempts - 1}, {0})
SpecClear == InitClear /\ [][NextClear]_vars

\* syncNow next to the operations that make the adapters differ (saveState
\* with one adapter failing, deleteSession), for one session and two
\* payloads, under the same strategy
NextSync ==
  \/ AdvanceClock
  \/ \E s \in Sessions, p \in payloads, t \in Tabs, f \in failPoints :
        SaveStateBegin(s, p, t, f)
  \/ \E o \in WriteOutcomes, f \in failPoints : SaveRemoteDone(o, f)
  \/ \E f \in failPoints : SaveRetryDelay(f)
  \/ Return
  \/ \E s \in Sessions, f \in DeleteFailPoints \cap failPoints : DeleteSessionBegin(s, f)
  \/ \E o \in WriteOutcomes : DeleteRemoteDone(o)
  \/ SyncNowBegin
  \/ \E o \in Outcomes, order \in Orders(remoteStore) : SyncListDone(o, order)
  \/ \E o \in Outcomes, f \in failPoints : SyncLoadDone(o, f)
  \/ \E o \in WriteOutcomes : SyncSaveDone(o)

InitSync == InitWith({"hybrid"}, {"latest-wins"}, {DefaultRetryAttempts - 1}, 0..1)
SpecSync == InitSync /\ [][NextSync]_vars

\* The localStorage adapter on its own, over two sessions: each of the three
\* localStorage.setItem calls of saveState can hit the quota, and so can the
\* one of deleteSession
NextLocalAdapter ==
  \/ AdvanceClock
  \/ \E s \in ManySessions, p \in payloads, t \in Tabs, f \in failPoints :
        LocalAdapterSaveState(s, p, t, f)
  \/ \E s \in ManySessions, f \in DeleteFailPoints \cap failPoints :
        LocalAdapterDeleteSession(s, f)
  \/ LocalAdapterClearAll
  \/ \E s \in ManySessions : LocalAdapterLoadState(s)
  \/ \E s \in ManySessions : LocalAdapterHasSession(s)
  \/ LocalAdapterListSessions
  \/ Return

InitLocalAdapter ==
  InitWith({"local-first"}, {"latest-wins"}, {DefaultRetryAttempts}, SaveFailPoints)
SpecLocalAdapter == InitLocalAdapter /\ [][NextLocalAdapter]_vars

\* saveState of one session next to setActiveSessionId of two and
\* getActiveSessionId, under every strategy, with the background pushes and
\* the timer of local-first; remote requests can fail and the quota can be
\* hit when a session record is written
NextActive ==
  \/ AdvanceClock
  \/ \E s \in Sessions, p \in payloads, t \in Tabs, f \in failPoints :
        SaveStateBegin(s, p, t, f)
  \/ \E o \in WriteOutcomes, f \in failPoints : SaveRemoteDone(o, f)
  \/ \E f \in failPoints : SaveRetryDelay(f)
  \/ Return
  \/ \E b \in bgPushes, o \in WriteOutcomes : BgPushDone(b, o)
  \/ TickStart
  \/ \E o \in WriteOutcomes : TickDone(o)
  \/ \E s \in ManySessions : SetActiveSessionIdBegin(s, 0)
  \/ \E o \in WriteOutcomes : SetActiveRemoteDone(o)
  \/ GetActiveSessionIdBegin
  \/ GetActiveAfterSave
  \/ \E o \in Outcomes : GetActiveRemoteDone(o)

InitActive ==
  InitFor(Strategies, {"latest-wins"}, {DefaultRetryAttempts - 1}, 0..1,
          {DataState("p1", StringV, NullV)})
SpecActive == InitActive /\ [][NextActive]_vars

\* The queue of the shipped strategy over two sessions, the second saved
\* with either payload, with the background pushes and the timer; one attempt
\* per adapter write (so no retry delay), remote requests can fail and the
\* quota can be hit when a session record is written.  The queue and its
\* pushes read no timestamp: everything happens within one clock value.
FirstPayload == DataState("p1", StringV, NullV)

NextTicks ==
  \/ \E s \in ManySessions, p \in payloads, t \in Tabs, f \in failPoints :
        (s = "s1" => p = FirstPayload) /\ SaveStateBegin(s, p, t, f)
  \/ \E o \in WriteOutcomes, f \in failPoints : SaveRemoteDone(o, f)
  \/ Return
  \/ \E b \in bgPushes, o \in WriteOutcomes : BgPushDone(b, o)
  \/ TickStart
  \/ \E o \in WriteOutcomes : TickDone(o)

InitTicks == InitWith({"local-first"}, {"latest-wins"}, {DefaultRetryAttempts - 2}, 0..1)
SpecTicks == InitTicks /\ [][NextTicks]_vars

\* The auto-sync timer next to the saves of the shipped strategy that fill
\* the queue: constructed with autoSync on or off, started, stopped, reset
\* and constructed again; one session, one attempt per adapter write
NextTimers ==
  \/ \E s \in Sessions, p \in payloads, t \in Tabs, f \in failPoints :
        SaveStateBegin(s, p, t, f)
  \/ \E o \in WriteOutcomes, f \in failPoints : SaveRemoteDone(o, f)
  \/ Return
  \/ \E b \in bgPushes, o \in WriteOutcomes : BgPushDone(b, o)
  \/ TickStart
  \/ \E o \in WriteOutcomes : TickDone(o)
  \/ StartAutoSync
  \/ StopAutoSync
  \/ ResetStateSync
  \/ GetStateSync

InitTimers ==
  InitAuto({"local-first"}, {"latest-wins"}, {DefaultRetryAttempts - 2}, {0}, {FirstPayload},
           BOOLEAN)
SpecTimers == InitTimers /\ [][NextTimers]_vars

\* The operations over two sessions with a quota that can be hit when the
\* active pointer is written
InitPointerQuota ==
  InitFor({"hybrid"}, {"latest-wins"}, {DefaultRetryAttempts - 1}, PointerFailPoints,
          {DataState("p1", StringV, NullV)})
SpecPointerQuota == InitPointerQuota /\ [][NextSessions]_vars

\* An orchestrator constructed with values outside the recognised sets, next
\* to the shipped configuration: the constructor stores config.strategy and
\* config.conflictResolution as given
InitUnchecked ==
  /\ InitWith({"local-first", UnknownStrategy}, {"latest-wins", UnknownResolution},
              {DefaultRetryAttempts - 1}, {0})
  /\ (strategy = "local-first" => conflictResolution = "latest-wins")
SpecUnchecked == InitUnchecked /\ [][Next]_vars

\* The migration sweep next to saveState, under the strategy that writes both
\* adapters in the foreground; remote requests can fail and the quota can be
\* hit when a session record is written, so a session can be held by either
\* adapter alone
NextMigrate ==
  \/ AdvanceClock
  \/ \E s \in ManySessions, p \in payloads, t \in Tabs, f \in failPoints :
        SaveStateBegin(s, p, t, f)
  \/ \E o \in WriteOutcomes, f \in failPoints : SaveRemoteDone(o, f)
  \/ \E f \in failPoints : SaveRetryDelay(f)
  \/ Return
  \/ MigrateBegin
  \/ \E o \in Outcomes, order \in Orders(remoteStore) : ListRemoteDone(o, order)
  \/ MigrateAfterList
  \/ \E o \in Outcomes : StatusRemoteDone(o)
  \/ MigrateAfterStatus
  \/ \E o \in Outcomes : LoadRemoteDone(o)
  \/ \E f \in failPoints : MigrateAfterLoad(f)
  \/ MigrateAfterSave

InitMigrate ==
  InitFor({"hybrid"}, {"latest-wins"}, {DefaultRetryAttempts - 1}, 0..1,
          {DataState("p1", StringV, NullV)})
SpecMigrate == InitMigrate /\ [][NextMigrate]_vars

\* The backend adapter on its own, a request at a time.  The browser runs a
\* timer that is due and the continuation of a settled promise; nothing
\* obliges the remote service to send a response or to finish one.
NextRemoteAdapter ==
  \/ AdvanceClock
  \/ \E s \in ManySessions, p \in payloads, t \in Tabs : RemoteAdapterSaveState(s, p, t)
  \/ \E status \in {"ok", "http"} : FetchResponds(status)
  \/ FetchRejects
  \/ \E reached \in BOOLEAN : AbortTimerFires(reached)
  \/ BodyRead
  \/ Return

InitRemoteAdapter ==
  InitWith({"backend-only"}, {"latest-wins"}, {DefaultRetryAttempts}, {0})
SpecRemoteAdapter ==
  /\ InitRemoteAdapter
  /\ [][NextRemoteAdapter]_vars
  /\ WF_vars(\E reached \in BOOLEAN : AbortTimerFires(reached))
  /\ WF_vars(Return)

\* -------------------------------------------------------------- properties
AtReturn(op) == call.op = op /\ call.pc = "ret"

PendingPayload(sessionId) ==
  pendingSyncs[CHOOSE i \in PendingIndex(pendingSyncs, sessionId) : TRUE].dataState

RemoteHolds(sessionId, dataState) ==
  sessionId \in DOMAIN remoteStore /\ remoteStore[sessionId].dataState = dataState

NothingInFlight == bgPushes = {} /\ tick.pc = "idle"

\* C1: under local-first, as long as the remote service has accepted no write
\* of a session, (a) a saveState whose local write was made returns success,
\* the local adapter's loadState returns the payload just saved and the
\* pending queue holds an entry with that payload, and (b) at every later
\* moment, whatever pushes and ticks have failed meanwhile, the queue still
\* holds an entry with the payload the local adapter holds.
C1_NoLocalDataLoss ==
  strategy = "local-first" =>
    /\ \A s \in Sessions :
         (s \in DOMAIN localStore /\ s \notin DOMAIN remoteStore) =>
           /\ HasPending(pendingSyncs, s)
           /\ PendingPayload(s) = localStore[s].dataState
    /\ (/\ AtReturn("save")
        /\ "localStorage" \in call.stored
        /\ call.sessionId \notin DOMAIN remoteStore) =>
         /\ call.result[1].success
         /\ LocalLoad(localStore, call.sessionId) # <<>>
         /\ LocalLoad(localStore, call.sessionId)[1].dataState = call.dataState
         /\ HasPending(pendingSyncs, call.sessionId)
         /\ PendingPayload(call.sessionId) = call.dataState

\* a second save of the session returns after its background push and every
\* attempt of its own remote write have failed
C1_Witness ==
  /\ strategy = "local-first"
  /\ AtReturn("save")
  /\ call.stored = {"localStorage"}
  /\ Len(call.results) = 2 /\ ~call.results[2].success
  /\ bgPushes = {}
  /\ call.sessionId \notin DOMAIN remoteStore
  /\ localStore[call.sessionId].createdAt < localStore[call.sessionId].updatedAt
  /\ call.result[1].success
  /\ PendingPayload(call.sessionId) = call.dataState

\* C2: under local-first, once the local write of a saveState has succeeded
\* and the remote push is queued, saveState returns: it is never suspended on
\* a remote saveState call or on a retry delay.
C2_SaveDoesNotAwaitRemote ==
  (strategy = "local-first" /\ call.op = "save" /\ "localStorage" \in call.stored) =>
    call.pc = "ret"

\* C3 as stated: saveState returns the first successful result in adapter
\* order; if every attempted write failed, the failure of the last adapter
\* attempted; success only if some adapter stored the write.
C3_FirstSuccessElseLastFailure ==
  AtReturn("save") =>
    LET res == call.results
        r == call.result[1]
        ok == {i \in 1..Len(res) : res[i].success}
    IN  /\ ok # {} => \E i \in ok : (\A j \in ok : i <= j) /\ r = res[i]
        /\ ok = {} => r = res[Len(res)]
        /\ r.success => call.stored # {}

\* C3 amended: saveState returns the first successful result in adapter
\* order; if every attempted write failed, the failure of the first adapter
\* attempted; success only if some adapter stored the write (the local
\* adapter then holds the payload, or the remote service accepted it).
C3_FirstSuccessElseFirstFailure ==
  AtReturn("save") =>
    LET res == call.results
        r == call.result[1]
        ok == {i \in 1..Len(res) : res[i].success}
    IN  /\ ok # {} => \E i \in ok : (\A j \in ok : i <= j) /\ r = res[i]
        /\ ok = {} => r = res[1]
        /\ r.success =>
             \/ /\ r.storageType = "local"
                /\ "localStorage" \in call.stored
                /\ LocalLoad(localStore, call.sessionId) # <<>>
                /\ LocalLoad(localStore, call.sessionId)[1].dataState = call.dataState
             \/ /\ r.storageType = "backend"
                /\ "backend" \in call.stored

\* both adapters were attempted and both failed, with different errors
C3_Witness ==
  /\ AtReturn("save")
  /\ Len(call.results) = 2
  /\ ~call.results[1].success /\ ~call.results[2].success
  /\ call.results[1] # call.results[2]
  /\ call.result = <<call.results[1]>>

\* C4: under local-first, once nothing is left to do for the sync (no
\* operation of the caller running, no push in flight, no tick running, the
\* pending queue empty), the remote service holds, for every session the
\* local adapter holds, the payload the local adapter holds.
C4_EventuallyConsistent ==
  (strategy = "local-first" /\ call.op = "idle" /\ NothingInFlight /\ pendingSyncs = <<>>) =>
    \A s \in DOMAIN localStore : RemoteHolds(s, localStore[s].dataState)

\* C5: under local-first, getSyncStatus reports needsSync = true for a saved
\* session the remote service did not answer for, and needsSync = false once
\* the session's payload has been pushed: both adapters answer with the same
\* payload, the queue holds no entry for the session, nothing is in flight.
C5_NeedsSyncFollowsPush ==
  (strategy = "local-first" /\ AtReturn("status")) =>
    LET s == call.sessionId
        st == call.states
    IN  /\ (s \in DOMAIN localStore /\ Len(st) = 1) => call.result[1].needsSync
        /\ (/\ Len(st) = 2
            /\ st[1].state.dataState = st[2].state.dataState
            /\ ~HasPending(pendingSyncs, s)
            /\ NothingInFlight) => ~call.result[1].needsSync

\* C6: a session's pending entry leaves the queue only in a step after which
\* the remote service holds that entry's payload (a push carrying it was
\* accepted), or in the step that deletes the session; the success of an
\* older in-flight push does not remove a newer entry.
C6_EntryLeavesOnlyWhenPushed ==
  [][\A s \in Sessions :
       (HasPending(pendingSyncs, s) /\ ~HasPending(pendingSyncs', s)) =>
         \/ /\ s \in DOMAIN remoteStore'
            /\ remoteStore'[s].dataState = PendingPayload(s)
         \/ /\ call.op = "idle"
            /\ call'.op = "delete" /\ call'.sessionId = s]_vars

\* C7: when deleteSession(s) returns, the queue holds no entry for s and no
\* push that would re-create s on the remote service is in flight or left in
\* a running tick's snapshot.
C7_DeleteEndsSync ==
  AtReturn("delete") =>
    /\ ~HasPending(pendingSyncs, call.sessionId)
    /\ \A b \in bgPushes : b.sessionId # call.sessionId
    /\ \A i \in 1..Len(tick.queue) : tick.queue[i].sessionId # call.sessionId

\* C8: under local-first, backend-first and hybrid, a saveState that returns
\* with the local write made and the payload not accepted by the remote
\* service leaves a pending entry for the session with that payload.
C8_UnconfirmedWriteQueued ==
  (/\ strategy \in {"local-first", "backend-first", "hybrid"}
   /\ AtReturn("save")
   /\ "localStorage" \in call.stored
   /\ "backend" \notin call.stored
   /\ ~RemoteHolds(call.sessionId, call.dataState)) =>
     /\ HasPending(pendingSyncs, call.sessionId)
     /\ PendingPayload(call.sessionId) = call.dataState

\* C9: under latest-wins, when both adapters answer loadState with records of
\* different updatedAt, loadState returns the record with the greater
\* updatedAt, in whichever order the strategy queries the adapters.
C9_LatestWins ==
  (/\ conflictResolution = "latest-wins"
   /\ AtReturn("load")
   /\ Len(call.states) = 2
   /\ call.states[1].state.updatedAt # call.states[2].state.updatedAt) =>
     \E i \in 1..2 :
        /\ \A j \in 1..2 : call.states[j].state.updatedAt <= call.states[i].state.updatedAt
        /\ call.result = <<call.states[i].state>>

\* the backend is queried first and the localStorage record, queried second,
\* is the later one
C9_Witness ==
  /\ conflictResolution = "latest-wins"
  /\ AtReturn("load")
  /\ Len(call.states) = 2
  /\ call.states[1].adapter = "backend"
  /\ call.states[2].state.updatedAt > call.states[1].state.updatedAt
  /\ call.result = <<call.states[2].state>>

\* C10: loadState returns null when no queried adapter answers with a record
\* of the session (the localStorage adapter, when queried, holds none), and
\* when exactly one adapter does it returns that adapter's record, under
\* every conflict policy.
C10_NullOrSoleRecord ==
  AtReturn("load") =>
    LET s == call.sessionId
        st == call.states
    IN  /\ Len(st) = 0 =>
             /\ call.result = <<>>
             /\ Contains(Order("load"), "localStorage") => s \notin DOMAIN localStore
        /\ Len(st) = 1 =>
             /\ call.result = <<st[1].state>>
             /\ st[1].adapter = "localStorage" => call.result = <<localStore[s]>>
             /\ st[1].adapter = "backend" => call.result = <<remoteStore[s]>>

\* under backend-wins only the localStorage adapter holds the session
C10_Witness ==
  /\ conflictResolution = "backend-wins"
  /\ AtReturn("load")
  /\ Len(call.states) = 1
  /\ call.states[1].adapter = "localStorage"
  /\ call.result = <<localStore[call.sessionId]>>

\* a loadState that returns after both adapters answered with a record, the
\* records being those the adapters hold
BothAnswered ==
  /\ AtReturn("load")
  /\ Len(call.states) = 2
  /\ call.sessionId \in DOMAIN localStore
  /\ call.sessionId \in DOMAIN remoteStore

\* C11: when both adapters hold a record of the session, loadState returns
\* the remote adapter's record under backend-wins and the local adapter's
\* record under local-wins, whatever the records' updatedAt and whichever
\* adapter was asked first.
C11_NamedAdapterWins ==
  BothAnswered =>
    /\ conflictResolution = "backend-wins" =>
          call.result = <<remoteStore[call.sessionId]>>
    /\ conflictResolution = "local-wins" =>
          call.result = <<localStore[call.sessionId]>>

\* backend-wins returns the remote record although the local adapter was
\* asked first and holds the later record
C11_Witness ==
  /\ BothAnswered
  /\ conflictResolution = "backend-wins"
  /\ Order("load")[1] = "localStorage"
  /\ localStore[call.sessionId].updatedAt > remoteStore[call.sessionId].updatedAt
  /\ localStore[call.sessionId].dataState # remoteStore[call.sessionId].dataState
  /\ call.result = <<remoteStore[call.sessionId]>>

\* the record held by the adapter that loadState asks first
FirstAsked(sessionId) ==
  IF Order("load")[1] = "backend" THEN remoteStore[sessionId] ELSE localStore[sessionId]

LastAsked(sessionId) ==
  IF Order("load")[1] = "backend" THEN localStore[sessionId] ELSE remoteStore[sessionId]

\* C12: under merge with both adapters holding the session, loadState
\* returns, unchanged, the record of the adapter that the strategy asks
\* first, also when the other record is the later one.
C12_MergeReturnsFirst ==
  (BothAnswered /\ conflictResolution = "merge") =>
    call.result = <<FirstAsked(call.sessionId)>>

C12_Witness ==
  /\ BothAnswered
  /\ conflictResolution = "merge"
  /\ LastAsked(call.sessionId).updatedAt > FirstAsked(call.sessionId).updatedAt
  /\ LastAsked(call.sessionId).dataState # FirstAsked(call.sessionId).dataState
  /\ call.result = <<FirstAsked(call.sessionId)>>

C14_BackendFirstFallback ==
  /\ []((strategy = "backend-first" /\ AtReturn("save")) =>
          IF call.results[1].success
            THEN /\ call.results[1].storageType = "backend"
                 /\ Len(call.results) = 1
                 /\ call.stored = {"backend"}
            ELSE /\ call.results[1].error = RemoteError
                 /\ Len(call.results) = 2
                 /\ "backend" \notin call.stored
                 /\ call.results[2].success <=> "localStorage" \in call.stored)
  /\ [][(strategy = "backend-first" /\ call'.op = "save") =>
          /\ remoteStore' # remoteStore => call.idx = 1
          /\ localVars' # localVars =>
                /\ Len(call'.results) >= 1
                /\ ~call'.results[1].success
                /\ call'.results[1].error = RemoteError]_vars

\* the fallback: the backend write failed and the record went to localStorage
C14_Witness ==
  /\ strategy = "backend-first"
  /\ AtReturn("save")
  /\ ~call.results[1].success
  /\ call.stored = {"localStorage"}
  /\ LocalLoad(localStore, call.sessionId) # <<>>
  /\ localStore[call.sessionId].dataState = call.dataState

\* the payload and activeTab of every record of the session that an adapter
\* holds, as they were given to saveState
Copies(sessionId) ==
  {<<store[sessionId].dataState, store[sessionId].activeTab>> :
     store \in {st \in {localStore, remoteStore} : sessionId \in DOMAIN st}}

\* C16: a loadState of a session whose copies were all saved with the same
\* payload and activeTab (a session saved once in particular) returns a
\* record with that sessionId, that payload and that activeTab.
C16_RoundTrip ==
  (AtReturn("load") /\ call.result # <<>> /\ Cardinality(Copies(call.sessionId)) = 1) =>
    /\ call.result[1].sessionId = call.sessionId
    /\ <<call.result[1].dataState, call.result[1].activeTab>> \in Copies(call.sessionId)

\* the step in which a saveState's write to the localStorage adapter succeeds
LocalWriteDone ==
  /\ call'.op = "save"
  /\ "localStorage" \in call'.stored
  /\ ~(call.op = "save" /\ "localStorage" \in call.stored)

\* the localStorage adapter is as a successful saveState(sessionId,
\* dataState, activeTab) leaves it
AsSavedLocally(sessionId, dataState, activeTab) ==
  /\ sessionId \in DOMAIN localStore
  /\ localStore[sessionId].dataState = dataState
  /\ localStore[sessionId].activeTab = activeTab
  /\ Contains(sessionList, sessionId)
  /\ localActive = <<sessionId>>

\* C15: when the localStorage adapter is as a saveState left it and the same
\* session, payload and activeTab are saved again, the adapter ends as it
\* was (same payload and activeTab, same createdAt, same session list, same
\* active pointer, every other record untouched) except that the record's
\* updatedAt and its metadata's lastModified carry the time of the second
\* call.
C15_SaveIdempotent ==
  [][(LocalWriteDone /\ AsSavedLocally(call'.sessionId, call'.dataState, call'.activeTab)) =>
       /\ localStore' =
            [localStore EXCEPT ![call'.sessionId] =
               [@ EXCEPT !.updatedAt = clock,
                         !.metadata = Metadata(call'.sessionId, clock, "local")]]
       /\ sessionList' = sessionList
       /\ localActive' = localActive]_vars

\* a session saved a second time, later, with another session in the list
C15_Witness ==
  /\ AtReturn("save")
  /\ "localStorage" \in call.stored
  /\ AsSavedLocally(call.sessionId, call.dataState, call.activeTab)
  /\ localStore[call.sessionId].createdAt < localStore[call.sessionId].updatedAt
  /\ Len(sessionList) = 2
  /\ sessionList[1] = call.sessionId

\* no adapter holds a record of the session, and the session list does not
\* name it
Missing(sessionId) ==
  /\ sessionId \notin DOMAIN localStore
  /\ sessionId \notin DOMAIN remoteStore
  /\ ~Contains(sessionList, sessionId)

\* the step in which deleteSession starts (the localStorage adapter's
\* deleteSession runs in it) and the step in which it ends (the remote
\* adapter's deleteSession is answered)
DeleteStarts == call.op = "idle" /\ call'.op = "delete"
DeleteEnds == call.op = "delete" /\ call'.pc = "ret"

\* what a deleteSession of a missing id returns: success from the
\* localStorage adapter, success from the remote adapter whenever the
\* service answered without an error, success from the orchestrator either
\* way (what the service does with its records is its own affair)
DeleteMissingSucceeds ==
  /\ DeleteStarts /\ Missing(call'.sessionId) => call'.results = <<OkResult(call'.sessionId, "")>>
  /\ DeleteEnds /\ Missing(call.sessionId) =>
        /\ call'.result = <<OkResult(call.sessionId, "")>>
        /\ isOnline' => call'.results[2] = OkResult(call.sessionId, "")
        /\ localVars' = localVars

C18_ClearedListsEmpty ==
  (AtReturn("list") /\ call.after = "clearAll") =>
    /\ call.states[1].sessions = <<>>
    /\ call.states[2].sessions = <<>>
    /\ call.result = << <<>> >>

NewestFirst(sessions) ==
  \A i \in 1..(Len(sessions) - 1) :
     sessions[i].lastModified >= sessions[i + 1].lastModified

\* C19: the list the localStorage adapter returns, the list the remote
\* adapter returns and the list listSessions returns are each sorted by
\* lastModified, newest first (an empty list when there is no session).
C19_ListsNewestFirst ==
  AtReturn("list") =>
    /\ NewestFirst(call.states[1].sessions)
    /\ NewestFirst(call.states[2].sessions)
    /\ NewestFirst(call.result[1])

\* the sessions an adapter held a record of when syncNow started, and the
\* payload and activeTab of the copies with the greatest updatedAt among them
KnownBefore == DOMAIN call.before[1].local \cup DOMAIN call.before[1].remote

CopiesBefore(sessionId) ==
  {st[sessionId] : st \in {x \in {call.before[1].local, call.before[1].remote} :
                               sessionId \in DOMAIN x}}

LatestBefore(sessionId) ==
  {<<r.dataState, r.activeTab>> :
     r \in {x \in CopiesBefore(sessionId) :
              \A y \in CopiesBefore(sessionId) : x.updatedAt >= y.updatedAt}}

\* every write syncNow made was accepted
WritesAccepted ==
  \A i \in 1..Len(call.results) :
     call.results[i].success \/ call.results[i].error = ReadError

\* every adapter's loadState returns the session with the payload and
\* activeTab of a latest copy
Converged(sessionId) ==
  /\ LocalLoad(localStore, sessionId) # <<>>
  /\ RemoteLoad(remoteStore, sessionId, TRUE) # <<>>
  /\ \A r \in {LocalLoad(localStore, sessionId)[1], RemoteLoad(remoteStore, sessionId, TRUE)[1]} :
        <<r.dataState, r.activeTab>> \in LatestBefore(sessionId)

\* C20: when syncNow has run to completion with every write accepted (no
\* save and no tick runs meanwhile), then for every session an adapter
\* held when it started, each adapter's loadState returns a record with the
\* payload and activeTab of the copy that had the greatest updatedAt.
C20_SyncNowConverges ==
  (AtReturn("sync") /\ WritesAccepted) => \A s \in KnownBefore : Converged(s)

\* both adapters held the same sessions when syncNow started, each with the
\* same payload, activeTab and updatedAt on both
ConsistentBefore ==
  /\ DOMAIN call.before[1].local = DOMAIN call.before[1].remote
  /\ DOMAIN call.before[1].local # {}
  /\ \A s \in DOMAIN call.before[1].local :
        LET l == call.before[1].local[s]
            r == call.before[1].remote[s]
        IN  /\ l.dataState = r.dataState
            /\ l.activeTab = r.activeTab
            /\ l.updatedAt = r.updatedAt

\* the log of syncNow holds no answer to a write
NoWriteIssued ==
  \A i \in 1..Len(call.results) : call.results[i].error = ReadError

\* C21: a syncNow over adapters that already hold the same version of every
\* session issues no write and leaves every record, its updatedAt included,
\* as it was.
C21_ConsistentSyncWritesNothing ==
  (AtReturn("sync") /\ ConsistentBefore) =>
    /\ NoWriteIssued
    /\ localStore = call.before[1].local
    /\ remoteStore = call.before[1].remote

\* the record of the session is as it was before the adapter call
RecordAsBefore ==
  LET s == call.sessionId
      b == call.before[1]
  IN  /\ (s \in DOMAIN localStore) = (s \in DOMAIN b.local)
      /\ s \in DOMAIN localStore => localStore[s] = b.local[s]

\* C22: for every record the on-device adapter holds after a sequence of
\* saves, createdAt is the time of the first successful save of the id and
\* later saves keep it, updatedAt is the time of the most recent successful
\* save (a save that reports failure leaves both as they were), and
\* updatedAt >= createdAt.
C22_CreatedOnceUpdatedOnSuccess ==
  /\ \A s \in DOMAIN localStore : localStore[s].updatedAt >= localStore[s].createdAt
  /\ AtReturn("localSave") =>
       LET s == call.sessionId
           b == call.before[1]
       IN  IF call.result[1].success
             THEN /\ s \in DOMAIN localStore
                  /\ localStore[s].updatedAt = call.sentAt
                  /\ localStore[s].createdAt =
                       IF s \in DOMAIN b.local THEN b.local[s].createdAt ELSE call.sentAt
             ELSE RecordAsBefore

\* C23: when the on-device saveState returns success = false, the stored
\* record of the session, the session index and the active session pointer
\* are exactly as they were before the call.
C23_FailedSaveWritesNothing ==
  (AtReturn("localSave") /\ ~call.result[1].success) =>
    /\ localStore = call.before[1].local
    /\ sessionList = call.before[1].list
    /\ localActive = call.before[1].active

\* C24: when saveState returns, each adapter whose own saveState returned
\* success holds an active session pointer equal to the session saved: the
\* on-device pointer for the localStorage adapter, the remote service's
\* pointer for the backend adapter.
C24_SaveSetsActivePointer ==
  AtReturn("save") =>
    /\ "localStorage" \in call.stored => localActive = <<call.sessionId>>
    /\ "backend" \in call.stored => remoteActive = <<call.sessionId>>

\* C25: no operation of the orchestrator ends with an exception that reaches
\* its caller.
C25_NoExceptionReachesCaller == call.pc # "throw"

\* C26: an orchestrator that serves a save or a load has a strategy and a
\* conflict policy of the recognised sets (construction with any other value
\* fails, so no such instance exists).
C26_UnknownConfigNeverServes ==
  call.op \in {"save", "load"} =>
    (strategy \in Strategies /\ conflictResolution \in Resolutions)

\* a request to the remote service is in flight
RemoteInFlight ==
  \/ call.pc \in {"await", "awaitList", "awaitLoad", "awaitSave"}
  \/ bgPushes # {}
  \/ tick.pc = "await"

\* C27: under local-only no operation of the orchestrator calls the remote
\* adapter, so no request to the remote service is ever in flight; under
\* backend-only nothing is ever written to the on-device store.
C27_SingleAdapterStrategies ==
  /\ strategy = "local-only" => ~RemoteInFlight
  /\ strategy = "backend-only" =>
       (localStore = EmptyMap /\ sessionList = <<>> /\ localActive = <<>>)

\* C28: when an operation whose last request went to the remote adapter has
\* completed, isOnline is true if that request succeeded and false if it
\* failed for want of a connection (setActiveSessionId, deleteSession,
\* clearAll; saveState under hybrid, whose first result is the backend's).
C28_OnlineReflectsLastOperation ==
  /\ AtReturn("setActive") => isOnline = call.results[1].success
  /\ AtReturn("delete") => isOnline = call.results[2].success
  /\ AtReturn("clear") => isOnline = call.results[2].success
  /\ (AtReturn("save") /\ strategy = "hybrid") => isOnline = call.results[1].success

\* C29: when migrateLocalSessionsToBackend returns, every session it
\* enumerated is counted once: totalSessions = migratedToBackend +
\* alreadySynced + failed.length.
C29_MigrationAccounting ==
  AtReturn("migrate") =>
    call.mig.totalSessions =
      call.mig.migratedToBackend + call.mig.alreadySynced + Len(call.mig.failed)

\* a saveState of the backend adapter is waiting for the remote service
RequestPending == call.op = "remoteSave" /\ call.pc \in {"fetch", "body"}

\* C30: a saveState of the backend adapter that is waiting for the remote
\* service completes (the timer bounds the wait), and one whose request was
\* aborted by the timer returns a failed SyncResult.
C30_RequestCompletes ==
  /\ [](AtReturn("remoteSave") /\ call.response = "timeout" =>
          call.result = <<FailResult(call.sessionId, TimeoutError)>>)
  /\ (RequestPending ~> AtReturn("remoteSave"))


\* the ids of the session list, and whether the list and the records name
\* the same sessions
IndexIds(list) == {list[i] : i \in 1..Len(list)}
IndexMatchesRecords == IndexIds(sessionList) = DOMAIN localStore

\* C31: after every completed saveState, deleteSession or clearAll of the
\* localStorage adapter, successful or failed, the ids of the session list
\* are exactly the ids that have a stored record.
C31_IndexMatchesRecords ==
  (call.op \in {"localSave", "localDelete", "localClear"} /\ call.pc = "ret")
    => IndexMatchesRecords

\* the same for a call that found the two in agreement and returned success
IndexMatchesAfterSuccess ==
  (call.op \in {"localSave", "localDelete", "localClear"} /\ call.pc = "ret"
     /\ call.result[1].success /\ IndexIds(call.before[1].list) = DOMAIN call.before[1].local)
    => IndexMatchesRecords


\* a session the list names without a record, or a record the list does not
\* name, in the localStorage values the call found
CorruptBefore(sessionId) ==
  (sessionId \in IndexIds(call.before[1].list)) # (sessionId \in DOMAIN call.before[1].local)

\* list and records agree on the session now
AgreeOn(sessionId) ==
  (sessionId \in IndexIds(sessionList)) = (sessionId \in DOMAIN localStore)

\* C32: a session that is in the index without a record, or has a record
\* without being in the index, is treated as absent by the localStorage
\* adapter (loadState returns null, hasSession false, listSessions omits it),
\* and after the call index and records agree on it again.
C32_CorruptSessionHealed ==
  /\ (AtReturn("localLoad") /\ CorruptBefore(call.sessionId))
       => (call.result = <<>> /\ AgreeOn(call.sessionId))
  /\ (AtReturn("localHas") /\ CorruptBefore(call.sessionId))
       => (call.result = <<FALSE>> /\ AgreeOn(call.sessionId))
  /\ AtReturn("localList")
       => \A s \in ManySessions :
            CorruptBefore(s)
              => /\ \A i \in 1..Len(call.result) : call.result[i].sessionId # s
                 /\ AgreeOn(s)

\* the part that the code does provide: none of the three reads raises, and
\* listSessions omits a session of either kind
CorruptSessionNotListed ==
  AtReturn("localList")
    => \A s \in ManySessions :
         CorruptBefore(s) => \A i \in 1..Len(call.result) : call.result[i].sessionId # s


\* the entries the adapters' listSessions returned to the call, the ids they
\* name, and the sessions an adapter holds a record of
Reported ==
  UNION {{call.states[a].sessions[i] : i \in 1..Len(call.states[a].sessions)} : a \in {1, 2}}
ReportedIds == {m.sessionId : m \in Reported}
ListedIds == {call.result[1][i].sessionId : i \in 1..Len(call.result[1])}
Known == DOMAIN localStore \cup DOMAIN remoteStore

OneEntryEachGreatest(ids) ==
  /\ ListedIds = ids
  /\ \A i, j \in 1..Len(call.result[1]) :
        call.result[1][i].sessionId = call.result[1][j].sessionId => i = j
  /\ \A i \in 1..Len(call.result[1]) :
        /\ call.result[1][i] \in Reported
        /\ \A m \in Reported :
              m.sessionId = call.result[1][i].sessionId
                => m.lastModified <= call.result[1][i].lastModified

\* C35 as stated: listSessions returns exactly one entry per sessionId that
\* an adapter holds, the one with the greatest lastModified.
C35_OneEntryPerKnownSession ==
  AtReturn("list") => OneEntryEachGreatest(Known)

\* C35, amended: listSessions returns exactly one entry per sessionId that an
\* adapter's listSessions reported, the one with the greatest lastModified
\* among the reports; every session the localStorage adapter holds is
\* listed, and nothing is listed that no adapter holds.
C35_OneEntryPerReportedSession ==
  AtReturn("list") =>
    /\ OneEntryEachGreatest(ReportedIds)
    /\ DOMAIN localStore \subseteq ListedIds
    /\ ListedIds \subseteq Known

\* both adapters report s1, the remote one with the later lastModified, and
\* s2 is reported by one adapter only
C35_Witness ==
  /\ AtReturn("list")
  /\ \E m \in Reported, n \in Reported :
        /\ m.sessionId = "s1" /\ n.sessionId = "s1"
        /\ m.storageType = "local" /\ n.lastModified > m.lastModified
  /\ "s2" \in ListedIds


\* C37: a getActiveSessionId that follows a saveState(s) which returned
\* success returns s, under every strategy.
C37_ActiveIsSavedSession ==
  (AtReturn("getActive") /\ call.after = "saveState") => call.result = <<call.sessionId>>

\* the same where the primary adapter is the localStorage adapter and it
\* stored the write
ActiveIsSavedSessionLocally ==
  (AtReturn("getActive") /\ call.after = "saveState"
     /\ GetAdaptersByStrategy(strategy)[1] = "localStorage" /\ "localStorage" \in call.stored)
    => call.result = <<call.sessionId>>


\* C38: deleteSession asks every registered adapter to delete, also after one
\* of them failed, and when it returns success no adapter holds the session.
C38_DeletedFromAllAdapters ==
  AtReturn("delete") =>
    /\ Len(call.results) = Len(Adapters)
    /\ call.result[1].success
         => (call.sessionId \notin DOMAIN localStore /\ call.sessionId \notin DOMAIN remoteStore)

\* the part that holds: every adapter is asked, and an adapter whose own
\* deleteSession returned success no longer holds the session
DeletedWhereAccepted ==
  AtReturn("delete") =>
    /\ Len(call.results) = Len(Adapters)
    /\ call.results[1].success => call.sessionId \notin DOMAIN localStore
    /\ call.results[2].success => call.sessionId \notin DOMAIN remoteStore


\* the sweep takes the result of the saveState it awaited
SweepTakesSave == call.mig.on /\ AtMigrationReturn("save") /\ call'.mig # call.mig

\* C40: the migration sweep counts a session as migrated only if the remote
\* adapter stored it; a session whose remote push failed is added to failed
\* and not counted.
C40_MigratedOnlyWhenPushed ==
  [][SweepTakesSave =>
       IF "backend" \in call.stored
         THEN /\ call'.mig.migratedToBackend = call.mig.migratedToBackend + 1
              /\ call'.mig.failed = call.mig.failed
              /\ call.sessionId \in DOMAIN remoteStore
         ELSE /\ call'.mig.migratedToBackend = call.mig.migratedToBackend
              /\ call'.mig.failed = Append(call.mig.failed, call.sessionId)]_vars

\* what the sweep does: every saveState it awaited counts as a migration
SweepCountsEverySave ==
  [][SweepTakesSave =>
       /\ call'.mig.migratedToBackend = call.mig.migratedToBackend + 1
       /\ call'.mig.failed = call.mig.failed]_vars


\* the timer's callback takes the answer to the push it awaited
TickTakesAnswer == tick.pc = "await" /\ tick' # tick

\* C33: one timer tick attempts the push of each entry that is in the queue
\* when the tick starts, once and in order; the entry of a push that
\* succeeded leaves the queue, a failed push changes neither the queue nor
\* the remote store, and after either answer the tick goes on to the next
\* entry.
C33_TickPushesEachOnce ==
  /\ [](\A i, j \in 1..Len(tick.queue) :
           tick.queue[i].sessionId = tick.queue[j].sessionId => i = j)
  /\ [][/\ (tick.pc = "idle" /\ tick'.pc = "await") => tick'.queue = pendingSyncs
        /\ TickTakesAnswer =>
             /\ tick'.queue = Tail(tick.queue)
             /\ tick'.pc = IF Len(tick.queue) = 1 THEN "idle" ELSE "await"
             /\ isOnline' =>
                  /\ ~HasPending(pendingSyncs', tick.queue[1].sessionId)
                  /\ tick.queue[1].sessionId \in DOMAIN remoteStore'
                  /\ remoteStore'[tick.queue[1].sessionId].dataState = tick.queue[1].dataState
             /\ ~isOnline' => (pendingSyncs' = pendingSyncs /\ remoteStore' = remoteStore)
       ]_vars

\* a tick over two entries whose first push failed: the first entry is still
\* queued and the second push is awaited
C33_Witness ==
  /\ tick.pc = "await" /\ Len(tick.queue) = 1
  /\ Len(pendingSyncs) = 2
  /\ tick.queue[1].sessionId = pendingSyncs[2].sessionId
  /\ ~isOnline

\* C34: the queue holds at most one entry per session, and an entry's
\* payload and activeTab are those of the latest saveState of the session
\* whose localStorage write succeeded, which are the ones localStorage holds.
C34_OneLatestEntryPerSession ==
  /\ \A i, j \in 1..Len(pendingSyncs) :
        pendingSyncs[i].sessionId = pendingSyncs[j].sessionId => i = j
  /\ \A i \in 1..Len(pendingSyncs) :
        LET e == pendingSyncs[i]
        IN  /\ e.sessionId \in DOMAIN localStore
            /\ e.dataState = localStore[e.sessionId].dataState
            /\ e.activeTab = localStore[e.sessionId].activeTab

\* a later save replaced the entry of which a running tick holds the earlier
\* version, next to the entry of another session
C34_Witness ==
  /\ Len(pendingSyncs) = 2
  /\ \E i \in 1..Len(tick.queue), j \in 1..Len(pendingSyncs) :
        /\ tick.queue[i].sessionId = pendingSyncs[j].sessionId
        /\ tick.queue[i].dataState # pendingSyncs[j].dataState

\* C36: the payload of the push a tick issues is the payload localStorage
\* holds for the session at that moment.
C36_TickSendsLatestPayload ==
  [][(tick' # tick /\ tick'.pc = "await") =>
       LET e == tick'.queue[1]
       IN  /\ e.sessionId \in DOMAIN localStore'
           /\ e.dataState = localStore'[e.sessionId].dataState]_vars

\* C36's consequence as stated: a tick's push never replaces a remote record
\* that holds the session's latest payload by another payload.
TickKeepsLatestRemote ==
  [][(TickTakesAnswer /\ isOnline') =>
       LET s == tick.queue[1].sessionId
       IN  (s \in DOMAIN localStore /\ RemoteHolds(s, localStore[s].dataState))
             => remoteStore'[s].dataState = localStore[s].dataState]_vars


\* C39: the browser holds at most one interval timer of the orchestrator,
\* the one whose handle syncTimer keeps, and none after stopAutoSync or
\* resetStateSync; a tick starts only while a timer is started; a
\* constructor leaves a timer only if autoSync is enabled.
C39_OneTimerWhileStarted ==
  /\ (~autoSync => intervals = {})
  /\ [](intervals = IF syncTimer = <<>> THEN {} ELSE {syncTimer[1]})
  /\ [][/\ (tick.pc = "idle" /\ tick'.pc = "await") => syncTimer # <<>>
        /\ (~globalStateSync /\ globalStateSync' /\ ~autoSync) => intervals' = {}
        /\ (syncTimer' = <<>> /\ syncTimer # <<>>) => intervals' = {}]_vars

\* the timer was stopped and started again, and a tick of the new timer is
\* running
C39_Witness ==
  /\ timerCount = MaxTimers
  /\ syncTimer = <<MaxTimers>>
  /\ tick.pc = "await"

====
